---- MODULE Spec2Model ----
(***************************************************************************)
(* Model of the download orchestration engine of httprunner/video-downloader. *)
(*                                                                         *)
(* Part 1: internal/resume/downloader.go, the ResumableDownloader.         *)
(* A transfer task is one goroutine running downloadJob(job).  Its steps   *)
(* are cut at the points where the goroutine waits for the outside world:  *)
(* the HEAD probe, the GET request, every read of the response body, the   *)
(* retry backoff and the blocking sends on the progress channel.  The code *)
(* between two such points is one atomic step (Spec); SpecFine also cuts   *)
(* progressWriter.Write between the file write and the counter update.     *)
(*                                                                         *)
(* Part 2: the BatchManager (SpecBatch).  Part 3: the downloader.Manager   *)
(* (SpecManager).  Part 4: Manager.processDownload step by step, with the  *)
(* metadata store and the transfers of utils.DownloadManager, for a        *)
(* Manager that is not stopped (SpecProcess).  Part 5: one call of         *)
(* M3U8Downloader.DownloadM3U8 (SpecM3U8).  Part 6: the platform Registry  *)
(* (SpecRegistry).  SpecDelete is the ResumableDownloader with DeleteJob,  *)
(* SpecCancel the utils.DownloadManager with CancelJob.  Each              *)
(* specification moves the variables of its own part and leaves the other  *)
(* parts as their constructors return them.                                *)
(***************************************************************************)
EXTENDS Integers, Sequences, FiniteSets, TLC

\* ------------------------------------------------------------------ bounds
ResourceSize == 2      \* S: bytes (write units) of the resource on the server
MaxTasks == 2          \* transfer tasks (go rd.downloadJob) started in a behaviour
MaxRestarts == 1       \* process restarts (NewResumableDownloader run again)
maxRetries == 1        \* rd.maxRetries (config.MaxRetries)
chunkSize == 2         \* rd.chunkSize in write units (config.ChunkSize)
ChanCap == 1           \* capacity of the caller's progress channel

URLs == {1}
Paths == {1}

\* ------------------------------------------------------------- pure helpers
\* generateJobID: md5 of "url:filePath", taken as collision free.
generateJobID(url, filePath) == <<url, filePath>>

JobIds == {generateJobID(u, p) : u \in URLs, p \in Paths}

\* The bytes the server holds for a url.
Resource(url) == [i \in 1..ResourceSize |-> 10 * (url - 1) + i]

\* calculateChecksum: hex md5 of the file's bytes, taken as collision free;
\* the empty sequence stands for the empty string (no checksum).
calculateChecksum(data) == <<0>> \o data

NoChecksum == <<>>

\* The exported fields json.MarshalIndent writes (ctx, cancel, progressChan
\* and mutex are tagged json:"-").
marshal(job) ==
    [ID |-> job.ID, URL |-> job.URL, FilePath |-> job.FilePath,
     FileSize |-> job.FileSize, Downloaded |-> job.Downloaded,
     Status |-> job.Status, Checksum |-> job.Checksum,
     RetryCount |-> job.RetryCount, LastError |-> job.LastError]

\* json.Unmarshal into a fresh ResumableJob: the unexported fields are nil.
unmarshal(meta) ==
    [ID |-> meta.ID, URL |-> meta.URL, FilePath |-> meta.FilePath,
     FileSize |-> meta.FileSize, Downloaded |-> meta.Downloaded,
     Status |-> meta.Status, Checksum |-> meta.Checksum,
     RetryCount |-> meta.RetryCount, LastError |-> meta.LastError,
     ctx |-> 0, progressChan |-> "nil"]

\* Map helpers for the Go maps and the directories.
Put(m, k, v) == [x \in DOMAIN m \cup {k} |-> IF x = k THEN v ELSE m[x]]

Remove(m, k) == [x \in DOMAIN m \ {k} |-> m[x]]

EmptyMap == [x \in {} |-> 0]

\* ------------------------------------------------------------------- state
VARIABLES
    activeJobs,    \* rd.activeJobs: job id -> ResumableJob
    ctxs,          \* the contexts created so far: ctxs[c] = TRUE iff cancelled
    tasks,         \* the downloadJob goroutines started so far
    tempFiles,     \* <tempDir>/<jobID>.tmp: job id -> bytes
    metaFiles,     \* <metaDir>/<jobID>.json: job id -> marshalled job
    finalFiles,    \* files at the callers' destination paths: path -> bytes
    chanLen,       \* updates buffered in the progress channel
    ret,           \* the job the last StartDownload/ResumeDownload returned
    restarts,      \* process restarts so far
    rangeSupport,  \* the server honours Range requests
    sizeKnown,     \* the server's HEAD response carries Content-Length
    sink,          \* the progress channel callers pass: nil, one that is read,
                   \* or one that nobody reads
    removed        \* the jobs DeleteJob has deleted from rd.activeJobs; the
                   \* ResumableJob stays in activeJobs for the tasks that
                   \* hold a pointer to it

rdVars == <<activeJobs, ctxs, tasks, tempFiles, metaFiles, finalFiles, chanLen,
            ret, restarts, rangeSupport, sizeKnown, sink, removed>>

\* Part 2: internal/batch, the BatchManager (one manager, its batch jobs).
VARIABLES
    semaphore,     \* bm.semaphore: the number of tokens in the channel
    bmCtxDone,     \* bm.ctx is cancelled
    workers,       \* bm.workers: the WaitGroup counter
    batchJobs,     \* the BatchJobs started so far, with their goroutine
    itemTasks,     \* the item goroutines downloadVideos started so far
    maxConcurrent  \* bm.maxConcurrent, the capacity of bm.semaphore

bmVars == <<semaphore, bmCtxDone, workers, batchJobs, itemTasks, maxConcurrent>>

\* Part 3: internal/downloader, the Manager.
VARIABLES
    queue,         \* m.queue: the requests buffered in the channel
    mCtxDone,      \* m.ctx is cancelled
    wg,            \* m.wg: the WaitGroup counter
    workerTasks,   \* the worker goroutines Start started so far
    calls,         \* the calls of Manager.Download made so far
    procs,         \* the goroutines processDownload started so far, each
                   \* with its own result channel: <<request, caller>> -> goroutine
    stopPc,        \* where the call of Stop is
    batches        \* the calls of Manager.DownloadBatch made so far

mVars == <<queue, mCtxDone, wg, workerTasks, calls, procs, stopPc, batches>>

\* Part 4: Manager.processDownload in detail, with the metadata store and the
\* transfers of utils.DownloadManager.
VARIABLES
    storage,       \* m.storage: video ID -> Status of the stored descriptor
    transfers,     \* the downloadFile goroutines: processing task -> position
    progressChans, \* the progress channel of each processing task
    outputFiles,   \* the output paths at which a file exists
    dmJobs         \* dm.activeJobs: job id -> DownloadJob, with the position
                   \* of its downloadFile goroutine

tVars == <<storage, transfers, progressChans, outputFiles, dmJobs>>

\* Part 5: internal/utils, one call of M3U8Downloader.DownloadM3U8.
VARIABLES
    m3u8,           \* the call: position, playlist, segments, md.maxWorkers,
                    \* the progress channel passed, the error returned
    segTasks,       \* the segment goroutines: index -> position
    sem,            \* the tokens in sem
    segmentFiles,   \* segmentFiles: index -> file name, 0 for ""
    segmentDir,     \* tempDir: file name -> content
    downloadErrors, \* len(downloadErrors)
    outputFile,     \* the file at outputPath: <<>> when there is none,
                    \* <<content>> when there is one
    fetchOrder      \* history: the indexes in the order the fetches completed

sVars == <<m3u8, segTasks, sem, segmentFiles, segmentDir, downloadErrors,
           outputFile, fetchOrder>>

\* Part 6: internal/platform/registry, the Registry.
VARIABLES
    extractors,    \* r.extractors: the platforms an extractor is registered for
    patterns,      \* r.patterns: pattern -> platform
    answers        \* what the last queries of a caller returned

gVars == <<extractors, patterns, answers>>

vars == <<rdVars, bmVars, mVars, tVars, sVars, gVars>>

\* The Manager as NewManager returns it.
NewManager ==
    /\ queue = <<>>
    /\ mCtxDone = FALSE
    /\ wg = 0
    /\ workerTasks = <<>>
    /\ calls = <<>>
    /\ procs = EmptyMap
    /\ stopPc = "idle"
    /\ batches = <<>>

\* The DownloadManager as NewDownloadManager returns it, no file written yet.
NewDownloadManager ==
    /\ transfers = EmptyMap
    /\ progressChans = EmptyMap
    /\ outputFiles = {}
    /\ dmJobs = <<>>

\* The Manager with an empty metadata store, not started.
ManagerIdle ==
    /\ NewManager
    /\ NewDownloadManager
    /\ storage = EmptyMap

\* The Registry as NewRegistry returns it, not asked yet.
NewRegistry ==
    /\ extractors = {}
    /\ patterns = EmptyMap
    /\ answers = [url |-> <<>>]

\* No call of DownloadM3U8 has been made.
M3U8Idle ==
    /\ m3u8 = [pc |-> "idle"]
    /\ segTasks = <<>>
    /\ sem = 0
    /\ segmentFiles = <<>>
    /\ segmentDir = EmptyMap
    /\ downloadErrors = 0
    /\ outputFile = <<>>
    /\ fetchOrder = <<>>

\* The BatchManager as NewBatchManager returns it.
NewBatchManager(maxConc) ==
    /\ maxConcurrent = maxConc
    /\ semaphore = 0
    /\ bmCtxDone = FALSE
    /\ workers = 0
    /\ batchJobs = <<>>
    /\ itemTasks = <<>>

env == <<rangeSupport, sizeKnown, sink>>

\* ------------------------------------------------------------ file system
\* What a task's open descriptor refers to.  os.Rename keeps the inode: a
\* descriptor opened on the temporary file follows it to the final path, and a
\* descriptor on a file that a rename replaced refers to an unlinked inode.
renameFds(ts, j, path) ==
    [i \in DOMAIN ts |->
        IF ts[i].fd = "temp" /\ ts[i].job = j
        THEN [ts[i] EXCEPT !.fd = "final"]
        ELSE IF ts[i].fd = "final" /\ activeJobs[ts[i].job].FilePath = path
        THEN [ts[i] EXCEPT !.fd = "orphan"]
        ELSE ts[i]]

\* ------------------------------------------------------------------ server
\* The request carries no Range header.
NoRange == -1

\* Status of the GET response for a request with the header
\* "Range: bytes=<Range>-", or with none.
serverStatus(Range) ==
    IF Range = NoRange \/ ~rangeSupport THEN 200
    ELSE IF Range < ResourceSize THEN 206
    ELSE 416

\* performDownload, expected status.
expectedStatus(startByte) == IF startByte > 0 THEN 206 ELSE 200

\* ---------------------------------------------------------------- contexts
\* ctx.Err() != nil
ctxErr(c) == c > 0 /\ ctxs[c]

\* ----------------------------------------------------------------- channel
\* A send on the progress channel can complete: a reader is receiving, or the
\* buffer has room.
canSend == sink = "read" \/ chanLen < ChanCap

sent == IF sink = "read" THEN chanLen ELSE chanLen + 1

\* ------------------------------------------------------------ verification
\* verifyFile without the comparison of sizes.
verifyFile_NoSizeCheck(job) ==
    /\ job.ID \in DOMAIN tempFiles
    /\ (job.Checksum # NoChecksum =>
            calculateChecksum(tempFiles[job.ID]) = job.Checksum)

\* verifyFile on the temporary file of job.
verifyFile(job) ==
    /\ job.ID \in DOMAIN tempFiles
    /\ (job.FileSize > 0 => Len(tempFiles[job.ID]) = job.FileSize)
    /\ (job.Checksum # NoChecksum =>
            calculateChecksum(tempFiles[job.ID]) = job.Checksum)

\* fileExistsAndValid on the final path of job.
fileExistsAndValid(job) ==
    /\ job.FilePath \in DOMAIN finalFiles
    /\ (job.FileSize > 0 => Len(finalFiles[job.FilePath]) = job.FileSize)

\* saveJobMetadata(job): the metadata directory afterwards.
saveJobMetadata(job) == Put(metaFiles, job.ID, marshal(job))

\* ------------------------------------------------ steps shared by the task
\* A task that has returned keeps only what the claims read of it.
ended(task) ==
    [task EXCEPT !.pc = "done", !.fd = "none", !.reqCtx = 0,
                 !.startByte = 0, !.Range = NoRange, !.pos = 0,
                 !.written = 0, !.err = "nil"]

\* handleJobError(job, err), up to its send on the progress channel.  job is
\* the job as the calling step has left it, kind the error that is wrapped.
handleJobError(t, job, kind) ==
    LET failed == [job EXCEPT !.Status = "failed", !.LastError = kind] IN
    /\ activeJobs' = [activeJobs EXCEPT ![job.ID] = failed]
    /\ metaFiles' = saveJobMetadata(failed)
    /\ tasks' = [tasks EXCEPT ![t] =
            IF failed.progressChan # "nil"
            THEN [ended(@) EXCEPT !.pc = "send_failed"]
            ELSE ended(@)]
    /\ UNCHANGED <<tempFiles, finalFiles, chanLen>>

\* completeJob where a verification failure leads to another attempt.
completeJob_RetryOnMismatch(t, job) ==
    IF ~verifyFile(job)
    THEN /\ tasks' = [tasks EXCEPT ![t] =
                [@ EXCEPT !.pc = "backoff", !.reqCtx = job.ctx,
                          !.fd = "none", !.startByte = 0, !.Range = NoRange,
                          !.pos = 0, !.written = 0,
                          !.err = "file verification failed"]]
         /\ activeJobs' = [activeJobs EXCEPT ![job.ID] = job]
         /\ UNCHANGED <<tempFiles, finalFiles, metaFiles, chanLen>>
    ELSE LET completed == [job EXCEPT !.Status = "completed"]
             moved == renameFds(tasks, job.ID, job.FilePath)
         IN
         /\ finalFiles' = Put(finalFiles, job.FilePath, tempFiles[job.ID])
         /\ tempFiles' = Remove(tempFiles, job.ID)
         /\ activeJobs' = [activeJobs EXCEPT ![job.ID] = completed]
         /\ IF completed.progressChan # "nil"
            THEN /\ metaFiles' = saveJobMetadata(completed)
                 /\ tasks' = [moved EXCEPT ![t] =
                        [ended(@) EXCEPT !.pc = "send_completed"]]
            ELSE /\ metaFiles' = Remove(metaFiles, job.ID)
                 /\ tasks' = [moved EXCEPT ![t] = ended(@)]
         /\ UNCHANGED chanLen

\* completeJob(job), up to its send on the progress channel.
completeJob(t, job) ==
    IF ~verifyFile(job)
    THEN handleJobError(t, job, "file verification failed")
    ELSE LET completed == [job EXCEPT !.Status = "completed"]
             moved == renameFds(tasks, job.ID, job.FilePath)
         IN
         /\ finalFiles' = Put(finalFiles, job.FilePath, tempFiles[job.ID])
         /\ tempFiles' = Remove(tempFiles, job.ID)
         /\ activeJobs' = [activeJobs EXCEPT ![job.ID] = completed]
         /\ IF completed.progressChan # "nil"
            THEN /\ metaFiles' = saveJobMetadata(completed)
                 /\ tasks' = [moved EXCEPT ![t] =
                        [ended(@) EXCEPT !.pc = "send_completed"]]
            ELSE /\ metaFiles' = Remove(metaFiles, job.ID)
                 /\ tasks' = [moved EXCEPT ![t] = ended(@)]
         /\ UNCHANGED chanLen

\* performDownload up to client.Do: the resume offset is the size of the
\* temporary file, the request carries the job's current context.
performDownload(t, job, attempt) ==
    LET startByte == IF job.ID \in DOMAIN tempFiles
                     THEN Len(tempFiles[job.ID]) ELSE 0
        counted == IF job.ID \in DOMAIN tempFiles
                   THEN [job EXCEPT !.Downloaded = startByte] ELSE job
    IN
    /\ activeJobs' = [activeJobs EXCEPT ![job.ID] = counted]
    /\ UNCHANGED <<tempFiles, finalFiles, chanLen>>
    /\ tasks' = [tasks EXCEPT ![t] =
            [@ EXCEPT !.pc = "fetch", !.attempt = attempt,
                      !.startByte = startByte, !.reqCtx = job.ctx,
                      !.Range = IF startByte > 0 THEN startByte
                                ELSE NoRange,
                      !.fd = "none", !.pos = 0, !.written = 0,
                      !.err = "nil"]]

\* downloadJob after performDownload returned the error err.
attemptFailed(t, job, err) ==
    IF ctxErr(job.ctx)
    THEN LET paused == [job EXCEPT !.Status = "paused",
                                   !.LastError = "download cancelled"] IN
         /\ activeJobs' = [activeJobs EXCEPT ![job.ID] = paused]
         /\ metaFiles' = saveJobMetadata(paused)
         /\ tasks' = [tasks EXCEPT ![t] = ended(@)]
         /\ UNCHANGED <<tempFiles, finalFiles, chanLen>>
    ELSE LET noted == [job EXCEPT !.LastError = "attempt failed"] IN
         IF tasks[t].attempt < maxRetries
         THEN /\ activeJobs' = [activeJobs EXCEPT ![job.ID] = noted]
              /\ tasks' = [tasks EXCEPT ![t] =
                    [@ EXCEPT !.pc = "backoff", !.reqCtx = job.ctx,
                              !.fd = "none", !.startByte = 0,
                              !.Range = NoRange, !.pos = 0,
                              !.written = 0, !.err = err]]
              /\ UNCHANGED <<tempFiles, finalFiles, metaFiles, chanLen>>
         ELSE handleJobError(t, noted, "download failed after attempts")

\* --------------------------------------------------------------- API calls
NoJob == <<0, 0>>

newTask(j) ==
    [job |-> j, pc |-> "start", attempt |-> 0, startByte |-> 0,
     Range |-> NoRange, err |-> "nil", reqCtx |-> 0,
     fd |-> "none", pos |-> 0, written |-> 0]

\* resumeDownload(job, progressChan)
resumeDownload(j, progressChan) ==
    LET job == activeJobs[j] IN
    IF job.Status = "downloading" \/ job.Status = "completed"
    THEN /\ ret' = j
         /\ UNCHANGED <<activeJobs, ctxs, tasks>>
    ELSE /\ Len(tasks) < MaxTasks
         /\ ctxs' = Append(ctxs, FALSE)
         /\ activeJobs' = [activeJobs EXCEPT ![j] =
                [job EXCEPT !.progressChan = progressChan,
                            !.ctx = Len(ctxs) + 1]]
         /\ tasks' = Append(tasks, newTask(j))
         /\ ret' = j

\* StartDownload that does not look the job id up in the registry.
StartDownload_AlwaysNew(url, filePath, progressChan) ==
    LET jobID == generateJobID(url, filePath) IN
    /\ Len(tasks) < MaxTasks
    /\ ctxs' = Append(ctxs, FALSE)
    /\ activeJobs' = Put(activeJobs, jobID,
            [ID |-> jobID, URL |-> url, FilePath |-> filePath,
             FileSize |-> 0, Downloaded |-> 0, Status |-> "pending",
             Checksum |-> NoChecksum, RetryCount |-> 0,
             LastError |-> "", ctx |-> Len(ctxs) + 1,
             progressChan |-> progressChan])
    /\ tasks' = Append(tasks, newTask(jobID))
    /\ ret' = jobID
    /\ UNCHANGED <<tempFiles, metaFiles, finalFiles, chanLen, restarts, env>>

\* StartDownload(url, filePath, headers, progressChan)
StartDownload(url, filePath, progressChan) ==
    LET jobID == generateJobID(url, filePath) IN
    /\ IF jobID \in DOMAIN activeJobs
       THEN IF activeJobs[jobID].Status = "completed"
            THEN /\ ret' = jobID
                 /\ UNCHANGED <<activeJobs, ctxs, tasks>>
            ELSE resumeDownload(jobID, progressChan)
       ELSE /\ Len(tasks) < MaxTasks
            /\ ctxs' = Append(ctxs, FALSE)
            /\ activeJobs' = Put(activeJobs, jobID,
                    [ID |-> jobID, URL |-> url, FilePath |-> filePath,
                     FileSize |-> 0, Downloaded |-> 0, Status |-> "pending",
                     Checksum |-> NoChecksum, RetryCount |-> 0,
                     LastError |-> "", ctx |-> Len(ctxs) + 1,
                     progressChan |-> progressChan])
            /\ tasks' = Append(tasks, newTask(jobID))
            /\ ret' = jobID
    /\ UNCHANGED <<tempFiles, metaFiles, finalFiles, chanLen, restarts, env>>

\* ResumeDownload(jobID, progressChan)
ResumeDownload(jobID, progressChan) ==
    /\ IF jobID \notin DOMAIN activeJobs
       THEN /\ ret' = NoJob
            /\ UNCHANGED <<activeJobs, ctxs, tasks>>
       ELSE resumeDownload(jobID, progressChan)
    /\ UNCHANGED <<tempFiles, metaFiles, finalFiles, chanLen, restarts, env>>

\* PauseJob(jobID)
PauseJob(jobID) ==
    /\ IF jobID \notin DOMAIN activeJobs
       THEN UNCHANGED <<activeJobs, ctxs, metaFiles>>
       ELSE LET job == activeJobs[jobID]
                paused == [job EXCEPT !.Status = "paused"]
            IN
            /\ ctxs' = IF job.ctx > 0
                       THEN [ctxs EXCEPT ![job.ctx] = TRUE] ELSE ctxs
            /\ activeJobs' = [activeJobs EXCEPT ![jobID] = paused]
            /\ metaFiles' = saveJobMetadata(paused)
    /\ UNCHANGED <<tasks, tempFiles, finalFiles, chanLen, ret, restarts, env>>

\* loadExistingJobs: one job per metadata file.
loadExistingJobs == [j \in DOMAIN metaFiles |-> unmarshal(metaFiles[j])]

\* A goroutine of the process that died.
killed(task) == [ended(task) EXCEPT !.pc = "killed", !.attempt = 0]

\* The process dies (its goroutines, registry and channels with it) and is
\* started again: NewResumableDownloader.
Restart ==
    /\ restarts < MaxRestarts
    /\ restarts' = restarts + 1
    /\ activeJobs' = loadExistingJobs
    /\ tasks' = [t \in DOMAIN tasks |-> killed(tasks[t])]
    /\ ctxs' = <<>>
    /\ chanLen' = 0
    /\ ret' = NoJob
    /\ UNCHANGED <<tempFiles, metaFiles, finalFiles, env>>

\* ------------------------------------------------- downloadJob, step by step
Job(t) == activeJobs[tasks[t].job]

\* downloadJob: Status = "initializing", first save, HEAD request created.
Begin(t) ==
    /\ tasks[t].pc = "start"
    /\ LET job == [Job(t) EXCEPT !.Status = "initializing"] IN
       /\ activeJobs' = [activeJobs EXCEPT ![job.ID] = job]
       /\ metaFiles' = saveJobMetadata(job)
       /\ tasks' = [tasks EXCEPT ![t] =
                [@ EXCEPT !.pc = "probe", !.reqCtx = job.ctx]]
    /\ UNCHANGED <<ctxs, tempFiles, finalFiles, chanLen, ret, restarts, env>>

\* getFileInfo returns with an error: the request failed, was cancelled, or
\* the status was not 200.
ProbeFails(t) ==
    /\ tasks[t].pc = "probe"
    /\ handleJobError(t, Job(t), "failed to get file info")
    /\ UNCHANGED <<ctxs, ret, restarts, env>>

\* getFileInfo returns nil; downloadJob goes on to fileExistsAndValid and
\* either completeJob or the first performDownload.
ProbeOk(t) ==
    /\ tasks[t].pc = "probe"
    /\ ~ctxErr(tasks[t].reqCtx)
    /\ LET sized == IF sizeKnown
                    THEN [Job(t) EXCEPT !.FileSize = ResourceSize]
                    ELSE Job(t)
           downloading == [sized EXCEPT !.Status = "downloading"]
       IN
       IF fileExistsAndValid(sized)
       THEN completeJob(t, sized)
       ELSE /\ metaFiles' = saveJobMetadata(downloading)
            /\ performDownload(t, downloading, 0)
    /\ UNCHANGED <<ctxs, ret, restarts, env>>

\* client.Do fails (network failure or cancelled request).
FetchFails(t) ==
    /\ tasks[t].pc = "fetch"
    /\ attemptFailed(t, Job(t), "GET request failed")
    /\ UNCHANGED <<ctxs, ret, restarts, env>>

\* client.Do returns a response and the status is not checked.
FetchResponds_AnyStatus(t) ==
    /\ tasks[t].pc = "fetch"
    /\ ~ctxErr(tasks[t].reqCtx)
    /\ tempFiles' = IF tasks[t].job \in DOMAIN tempFiles
                    THEN tempFiles
                    ELSE Put(tempFiles, tasks[t].job, <<>>)
    /\ tasks' = [tasks EXCEPT ![t] =
            [@ EXCEPT !.pc = "copy", !.fd = "temp",
                      !.pos = tasks[t].startByte, !.written = 0]]
    /\ UNCHANGED <<activeJobs, metaFiles, finalFiles, chanLen>>
    /\ UNCHANGED <<ctxs, ret, restarts, env>>

\* client.Do returns a response: status check, then the temporary file is
\* opened with O_CREATE|O_WRONLY|O_APPEND.
FetchResponds(t) ==
    /\ tasks[t].pc = "fetch"
    /\ ~ctxErr(tasks[t].reqCtx)
    /\ IF serverStatus(tasks[t].Range) # expectedStatus(tasks[t].startByte)
       THEN attemptFailed(t, Job(t), "unexpected status code")
       ELSE /\ tempFiles' = IF tasks[t].job \in DOMAIN tempFiles
                            THEN tempFiles
                            ELSE Put(tempFiles, tasks[t].job, <<>>)
            /\ tasks' = [tasks EXCEPT ![t] =
                    [@ EXCEPT !.pc = "copy", !.fd = "temp",
                              !.pos = tasks[t].startByte, !.written = 0]]
            /\ UNCHANGED <<activeJobs, metaFiles, finalFiles, chanLen>>
    /\ UNCHANGED <<ctxs, ret, restarts, env>>

\* io.Copy: a read of the body fails (network failure or cancelled request).
\* performDownload returns the error only if job.ctx is not cancelled.
CopyFails(t) ==
    /\ tasks[t].pc = "copy"
    /\ IF ctxErr(Job(t).ctx)
       THEN completeJob(t, Job(t))
       ELSE attemptFailed(t, Job(t), "failed to download file")
    /\ UNCHANGED <<ctxs, ret, restarts, env>>

\* io.Copy: one read of the body and progressWriter.Write of what was read.
Write(t) ==
    /\ tasks[t].pc = "copy"
    /\ ~ctxErr(tasks[t].reqCtx)
    /\ tasks[t].pos < ResourceSize
    /\ LET job == [Job(t) EXCEPT !.Downloaded = @ + 1]
           byte == Resource(job.URL)[tasks[t].pos + 1]
           written == tasks[t].written + 1
       IN
       /\ tempFiles' = IF tasks[t].fd = "temp"
                       THEN [tempFiles EXCEPT ![job.ID] = Append(@, byte)]
                       ELSE tempFiles
       /\ finalFiles' = IF tasks[t].fd = "final"
                        THEN [finalFiles EXCEPT ![job.FilePath] = Append(@, byte)]
                        ELSE finalFiles
       /\ activeJobs' = [activeJobs EXCEPT ![job.ID] = job]
       /\ chanLen' = IF job.progressChan # "nil" /\ canSend
                     THEN sent ELSE chanLen
       /\ metaFiles' = IF written % chunkSize = 0
                       THEN saveJobMetadata(job) ELSE metaFiles
       /\ tasks' = [tasks EXCEPT ![t] =
                [@ EXCEPT !.pos = @ + 1, !.written = written]]
    /\ UNCHANGED <<ctxs, ret, restarts, env>>

\* io.Copy reaches the end of the body: performDownload returns nil.
CopyEnds(t) ==
    /\ tasks[t].pc = "copy"
    /\ ~ctxErr(tasks[t].reqCtx)
    /\ tasks[t].pos = ResourceSize
    /\ completeJob(t, Job(t))
    /\ UNCHANGED <<ctxs, ret, restarts, env>>

\* The backoff timer fires: next attempt.
Retry(t) ==
    /\ tasks[t].pc = "backoff"
    /\ LET attempt == tasks[t].attempt + 1 IN
       performDownload(t, [Job(t) EXCEPT !.RetryCount = attempt], attempt)
    /\ UNCHANGED <<ctxs, metaFiles, ret, restarts, env>>

\* case <-job.ctx.Done(): return
BackoffCancelled(t) ==
    /\ tasks[t].pc = "backoff"
    /\ ctxErr(tasks[t].reqCtx)
    /\ tasks' = [tasks EXCEPT ![t] = ended(@)]
    /\ UNCHANGED <<activeJobs, ctxs, tempFiles, metaFiles, finalFiles,
                   chanLen, ret, restarts, env>>

\* completeJob: the blocking send of the final update goes through, then
\* os.Remove(job.MetaPath).
SendCompleted(t) ==
    /\ tasks[t].pc = "send_completed"
    /\ canSend
    /\ chanLen' = sent
    /\ metaFiles' = Remove(metaFiles, tasks[t].job)
    /\ tasks' = [tasks EXCEPT ![t] = ended(@)]
    /\ UNCHANGED <<activeJobs, ctxs, tempFiles, finalFiles, ret, restarts, env>>

\* handleJobError: the blocking send of the failed update goes through.
SendFailed(t) ==
    /\ tasks[t].pc = "send_failed"
    /\ canSend
    /\ chanLen' = sent
    /\ tasks' = [tasks EXCEPT ![t] = ended(@)]
    /\ UNCHANGED <<activeJobs, ctxs, tempFiles, metaFiles, finalFiles,
                   ret, restarts, env>>

\* ------------------------------------------------------------ specification
\* A checksum reaches a job only through its metadata file (StartDownload
\* never sets one): the metadata directory found at construction is empty or
\* holds the record of a submitted job with its digest.
GoodSum(url) == calculateChecksum(Resource(url))

BadSum(url) == calculateChecksum(<<0>>)

suppliedMeta(url, filePath, sum) ==
    [ID |-> generateJobID(url, filePath), URL |-> url, FilePath |-> filePath,
     FileSize |-> 0, Downloaded |-> 0, Status |-> "pending",
     Checksum |-> sum, RetryCount |-> 0, LastError |-> ""]

Init ==
    /\ rangeSupport \in BOOLEAN
    /\ sizeKnown \in BOOLEAN
    /\ sink \in {"nil", "read", "unread"}
    /\ \/ metaFiles = EmptyMap
       \/ \E u \in URLs, p \in Paths :
            \E sum \in {GoodSum(u), BadSum(u)} :
                metaFiles = Put(EmptyMap, generateJobID(u, p),
                                suppliedMeta(u, p, sum))
    /\ activeJobs = loadExistingJobs
    /\ ctxs = <<>>
    /\ tasks = <<>>
    /\ tempFiles = EmptyMap
    /\ finalFiles = EmptyMap
    /\ chanLen = 0
    /\ ret = NoJob
    /\ restarts = 0
    /\ removed = {}
    /\ NewBatchManager(1)
    /\ ManagerIdle
    /\ M3U8Idle
    /\ NewRegistry

\* The channel value a caller passes.
progressChanOf == IF sink = "nil" THEN "nil" ELSE "ch"

Next ==
    \/ \E u \in URLs, p \in Paths : StartDownload(u, p, progressChanOf)
                /\ UNCHANGED <<removed, bmVars, mVars, tVars, sVars, gVars>>
    \/ \E j \in JobIds : ResumeDownload(j, progressChanOf)
                /\ UNCHANGED <<removed, bmVars, mVars, tVars, sVars, gVars>>
    \/ \E j \in JobIds : PauseJob(j)
                /\ UNCHANGED <<removed, bmVars, mVars, tVars, sVars, gVars>>
    \/ Restart
                /\ UNCHANGED <<removed, bmVars, mVars, tVars, sVars, gVars>>
    \/ \E t \in DOMAIN tasks : Begin(t)
                /\ UNCHANGED <<removed, bmVars, mVars, tVars, sVars, gVars>>
    \/ \E t \in DOMAIN tasks : ProbeFails(t)
                /\ UNCHANGED <<removed, bmVars, mVars, tVars, sVars, gVars>>
    \/ \E t \in DOMAIN tasks : ProbeOk(t)
                /\ UNCHANGED <<removed, bmVars, mVars, tVars, sVars, gVars>>
    \/ \E t \in DOMAIN tasks : FetchFails(t)
                /\ UNCHANGED <<removed, bmVars, mVars, tVars, sVars, gVars>>
    \/ \E t \in DOMAIN tasks : FetchResponds(t)
                /\ UNCHANGED <<removed, bmVars, mVars, tVars, sVars, gVars>>
    \/ \E t \in DOMAIN tasks : CopyFails(t)
                /\ UNCHANGED <<removed, bmVars, mVars, tVars, sVars, gVars>>
    \/ \E t \in DOMAIN tasks : Write(t)
                /\ UNCHANGED <<removed, bmVars, mVars, tVars, sVars, gVars>>
    \/ \E t \in DOMAIN tasks : CopyEnds(t)
                /\ UNCHANGED <<removed, bmVars, mVars, tVars, sVars, gVars>>
    \/ \E t \in DOMAIN tasks : Retry(t)
                /\ UNCHANGED <<removed, bmVars, mVars, tVars, sVars, gVars>>
    \/ \E t \in DOMAIN tasks : BackoffCancelled(t)
                /\ UNCHANGED <<removed, bmVars, mVars, tVars, sVars, gVars>>
    \/ \E t \in DOMAIN tasks : SendCompleted(t)
                /\ UNCHANGED <<removed, bmVars, mVars, tVars, sVars, gVars>>
    \/ \E t \in DOMAIN tasks : SendFailed(t)
                /\ UNCHANGED <<removed, bmVars, mVars, tVars, sVars, gVars>>

Spec == Init /\ [][Next]_vars

\* ================================================================== claims
live(t) == tasks[t].pc \notin {"done", "killed"}

liveTasks(j) == {t \in DOMAIN tasks : tasks[t].job = j /\ live(t)}

\* The step is one of task t's own steps out of a place where it waits.
leaves(t, pcs) ==
    /\ tasks[t].pc \in pcs
    /\ tasks'[t].pc # tasks[t].pc
    /\ restarts' = restarts

\* C1: for every job id at most one transfer task (downloadJob) is active at
\* any time.
C1_AtMostOneActiveTask == \A j \in JobIds : Cardinality(liveTasks(j)) <= 1

\* C2: a StartDownload for a job that is in the registry (reloaded from its
\* metadata file after a restart), is not completed and has no transfer task,
\* starts a transfer task, whatever status was persisted.
C2_ReloadedJobIsResumed ==
    [][\A u \in URLs, p \in Paths :
        LET j == generateJobID(u, p) IN
        (/\ StartDownload(u, p, progressChanOf)
         /\ j \in DOMAIN activeJobs
         /\ activeJobs[j].Status # "completed"
         /\ liveTasks(j) = {}
         /\ Len(tasks) < MaxTasks)
        => /\ Len(tasks') = Len(tasks) + 1
           /\ tasks'[Len(tasks')].job = j
           /\ tasks'[Len(tasks')].pc = "start"]_vars

\* C3: a task whose request context has been cancelled (PauseJob) while it
\* waits in the probe, in a fetch, in the copy or in a backoff, ends with its
\* next step, leaves the job paused and leaves the temporary file and the
\* final destination as they are.
C3_CancelLeavesPaused ==
    [][\A t \in DOMAIN tasks :
        (/\ leaves(t, {"probe", "fetch", "copy", "backoff"})
         /\ ctxErr(tasks[t].reqCtx))
        => /\ tasks'[t].pc = "done"
           /\ activeJobs'[tasks[t].job].Status = "paused"
           /\ UNCHANGED <<tempFiles, finalFiles>>]_vars

\* C4: a transfer resumed at offset k (0 < k < S, the bytes an interrupted
\* attempt left in the temporary file) that completes the job leaves a final
\* file with exactly the bytes of the resource.
C4_ResumedFileIsResource ==
    [][\A t \in DOMAIN tasks :
        LET j == tasks[t].job IN
        (/\ leaves(t, {"copy"})
         /\ tasks[t].startByte > 0
         /\ tasks[t].startByte < ResourceSize
         /\ activeJobs'[j].Status = "completed")
        => /\ activeJobs[j].FilePath \in DOMAIN finalFiles'
           /\ finalFiles'[activeJobs[j].FilePath] = Resource(activeJobs[j].URL)]_vars

C6_Verified(job, data) ==
    /\ (job.FileSize > 0 => Len(data) = job.FileSize)
    /\ (job.Checksum # NoChecksum => calculateChecksum(data) = job.Checksum)

\* C6: a file appears at a final destination, or a temporary file is moved
\* away, only in a step that moves a verified temporary file there; and a
\* task that ends in the probe or the copy while the temporary file is
\* missing or not verified leaves the job failed and touches neither the
\* temporary file nor the final destination.
C6_FinalOnlyAfterVerification ==
    [][/\ \A p \in Paths :
            (p \in DOMAIN finalFiles' /\ p \notin DOMAIN finalFiles)
            => \E j \in DOMAIN activeJobs \cap DOMAIN tempFiles :
                /\ activeJobs[j].FilePath = p
                /\ C6_Verified(activeJobs'[j], tempFiles[j])
                /\ finalFiles'[p] = tempFiles[j]
       /\ \A j \in DOMAIN activeJobs \cap DOMAIN tempFiles :
            j \notin DOMAIN tempFiles'
            => /\ C6_Verified(activeJobs'[j], tempFiles[j])
               /\ activeJobs[j].FilePath \in DOMAIN finalFiles'
               /\ finalFiles'[activeJobs[j].FilePath] = tempFiles[j]
       /\ \A t \in DOMAIN tasks :
            LET j == tasks[t].job IN
            (/\ leaves(t, {"probe", "copy"})
             /\ tasks'[t].pc \in {"send_completed", "send_failed", "done"}
             /\ \/ j \notin DOMAIN tempFiles
                \/ ~C6_Verified(activeJobs'[j], tempFiles[j]))
            => /\ activeJobs'[j].Status = "failed"
               /\ UNCHANGED <<tempFiles, finalFiles>>]_vars

\* A job with a supplied digest that the received bytes do not match: the
\* size is right, the job is failed, the temporary file is still there and
\* nothing is at the final destination.
C6_Witness ==
    \E j \in DOMAIN activeJobs :
        /\ activeJobs[j].Status = "failed"
        /\ activeJobs[j].LastError = "file verification failed"
        /\ activeJobs[j].Checksum = BadSum(activeJobs[j].URL)
        /\ activeJobs[j].FileSize = ResourceSize
        /\ j \in DOMAIN tempFiles
        /\ tempFiles[j] = Resource(activeJobs[j].URL)
        /\ activeJobs[j].FilePath \notin DOMAIN finalFiles

\* C7: job status only moves along pending -> initializing -> downloading ->
\* {completed, failed, paused} and paused -> downloading; in particular a
\* completed job never leaves completed.
C7_CompletedIsFinal ==
    [][\A j \in DOMAIN activeJobs :
        (activeJobs[j].Status = "completed" /\ restarts' = restarts)
        => activeJobs'[j].Status = "completed"]_vars

\* C8: a task marks the job failed for a network failure (of the probe or of
\* a fetch, the job's context not being cancelled) only after it has made
\* maxRetries retries.
C8_FailedOnlyAfterRetries ==
    [][\A t \in DOMAIN tasks :
        LET j == tasks[t].job IN
        (/\ leaves(t, {"probe", "fetch", "copy"})
         /\ ~ctxErr(tasks[t].reqCtx)
         /\ activeJobs'[j].Status = "failed"
         /\ activeJobs'[j].LastError \in
                {"failed to get file info", "download failed after attempts"})
        => tasks[t].attempt = maxRetries]_vars

\* C9: progress delivery never blocks the transfer: a task that is about to
\* send the final update of a job can always send it (so that it ends, and on
\* success removes the metadata file), also when nobody reads the sink.
\* Stated for a job with a single transfer task.
C9_ProgressNeverBlocks ==
    \A t \in DOMAIN tasks :
        (Len(tasks) = 1 /\ tasks[t].pc \in {"send_completed", "send_failed"})
        => canSend

\* C10: when the transfer tasks of a job have ended, the metadata file exists
\* iff the job is not completed, and it records the job's status.
C10_MetadataMatchesStatus ==
    \A j \in DOMAIN activeJobs :
        (/\ liveTasks(j) = {}
         /\ \E t \in DOMAIN tasks : tasks[t].job = j /\ tasks[t].pc = "done")
        => /\ (j \in DOMAIN metaFiles) <=> (activeJobs[j].Status # "completed")
           /\ j \in DOMAIN metaFiles =>
                metaFiles[j].Status = activeJobs[j].Status


\* ------------------------------------------------- progressWriter.Write, split
\* progressWriter.Write is two statements: pw.writer.Write(p) appends to the
\* file, and only then is job.Downloaded raised under job.mutex. Between the
\* two another task of the same job can run. WriteFile is the first statement.
WriteFile(t) ==
    /\ tasks[t].pc = "copy"
    /\ ~ctxErr(tasks[t].reqCtx)
    /\ tasks[t].pos < ResourceSize
    /\ LET job == Job(t)
           byte == Resource(job.URL)[tasks[t].pos + 1]
       IN
       /\ tempFiles' = IF tasks[t].fd = "temp"
                       THEN [tempFiles EXCEPT ![job.ID] = Append(@, byte)]
                       ELSE tempFiles
       /\ finalFiles' = IF tasks[t].fd = "final"
                        THEN [finalFiles EXCEPT ![job.FilePath] = Append(@, byte)]
                        ELSE finalFiles
       /\ tasks' = [tasks EXCEPT ![t] = [@ EXCEPT !.pc = "count", !.pos = @ + 1]]
    /\ UNCHANGED <<activeJobs, metaFiles, chanLen, ctxs, ret, restarts, env>>

\* The rest of progressWriter.Write: the counter, the progress send, the
\* periodic save.
Count(t) ==
    /\ tasks[t].pc = "count"
    /\ LET job == [Job(t) EXCEPT !.Downloaded = @ + 1]
           written == tasks[t].written + 1
       IN
       /\ activeJobs' = [activeJobs EXCEPT ![job.ID] = job]
       /\ chanLen' = IF job.progressChan # "nil" /\ canSend
                     THEN sent ELSE chanLen
       /\ metaFiles' = IF written % chunkSize = 0
                       THEN saveJobMetadata(job) ELSE metaFiles
       /\ tasks' = [tasks EXCEPT ![t] =
                [@ EXCEPT !.pc = "copy", !.written = written]]
    /\ UNCHANGED <<tempFiles, finalFiles, ctxs, ret, restarts, env>>

NextFine ==
    \/ \E u \in URLs, p \in Paths : StartDownload(u, p, progressChanOf)
                /\ UNCHANGED <<removed, bmVars, mVars, tVars, sVars, gVars>>
    \/ \E j \in JobIds : ResumeDownload(j, progressChanOf)
                /\ UNCHANGED <<removed, bmVars, mVars, tVars, sVars, gVars>>
    \/ \E j \in JobIds : PauseJob(j)
                /\ UNCHANGED <<removed, bmVars, mVars, tVars, sVars, gVars>>
    \/ Restart
                /\ UNCHANGED <<removed, bmVars, mVars, tVars, sVars, gVars>>
    \/ \E t \in DOMAIN tasks : Begin(t)
                /\ UNCHANGED <<removed, bmVars, mVars, tVars, sVars, gVars>>
    \/ \E t \in DOMAIN tasks : ProbeFails(t)
                /\ UNCHANGED <<removed, bmVars, mVars, tVars, sVars, gVars>>
    \/ \E t \in DOMAIN tasks : ProbeOk(t)
                /\ UNCHANGED <<removed, bmVars, mVars, tVars, sVars, gVars>>
    \/ \E t \in DOMAIN tasks : FetchFails(t)
                /\ UNCHANGED <<removed, bmVars, mVars, tVars, sVars, gVars>>
    \/ \E t \in DOMAIN tasks : FetchResponds(t)
                /\ UNCHANGED <<removed, bmVars, mVars, tVars, sVars, gVars>>
    \/ \E t \in DOMAIN tasks : CopyFails(t)
                /\ UNCHANGED <<removed, bmVars, mVars, tVars, sVars, gVars>>
    \/ \E t \in DOMAIN tasks : WriteFile(t)
                /\ UNCHANGED <<removed, bmVars, mVars, tVars, sVars, gVars>>
    \/ \E t \in DOMAIN tasks : Count(t)
                /\ UNCHANGED <<removed, bmVars, mVars, tVars, sVars, gVars>>
    \/ \E t \in DOMAIN tasks : CopyEnds(t)
                /\ UNCHANGED <<removed, bmVars, mVars, tVars, sVars, gVars>>
    \/ \E t \in DOMAIN tasks : Retry(t)
                /\ UNCHANGED <<removed, bmVars, mVars, tVars, sVars, gVars>>
    \/ \E t \in DOMAIN tasks : BackoffCancelled(t)
                /\ UNCHANGED <<removed, bmVars, mVars, tVars, sVars, gVars>>
    \/ \E t \in DOMAIN tasks : SendCompleted(t)
                /\ UNCHANGED <<removed, bmVars, mVars, tVars, sVars, gVars>>
    \/ \E t \in DOMAIN tasks : SendFailed(t)
                /\ UNCHANGED <<removed, bmVars, mVars, tVars, sVars, gVars>>

SpecFine == Init /\ [][NextFine]_vars

\* C11: while a job's status is downloading, its bytes-transferred counter
\* (Downloaded) never decreases: no step of one process run that finds the job
\* downloading and leaves it downloading lowers Downloaded.
C11_DownloadedNeverDecreases ==
    [][\A j \in DOMAIN activeJobs :
          ( /\ restarts' = restarts
            /\ j \in DOMAIN activeJobs'
            /\ activeJobs[j].Status = "downloading"
            /\ activeJobs'[j].Status = "downloading" )
          => activeJobs'[j].Downloaded >= activeJobs[j].Downloaded]_vars


\* ========================================================================
\* Part 2: the BatchManager.  A batch job is one goroutine running
\* processBatchJob(job); downloadVideos starts one item goroutine per video.
\* The fields of job.Progress and job.Results are read and written by these
\* goroutines without any lock: every x++ and every append is a load step
\* followed by a store step, so that a concurrent update can be lost.
MaxConcurrent == 2
MaxBatchJobs == 2
MaxURLs == 2
MaxItems == 2

JobTypes == {"url_list", "user_profile", "playlist"}

\* generateFilePath: <OutputPath>/<cleaned file name of the video>; the jobs of
\* the model share one output directory and video v has file name v.
generateFilePath(v) == <<"out", v>>

\* fileExists is a stub.
fileExists(filepath) == FALSE

\* The output directory holds the file of video 1 and no other.
diskFiles == {generateFilePath(1)}

updateJobStatus(job) ==
    IF job.Progress.Failed > 0 /\ job.Progress.Completed > 0
    THEN [job EXCEPT !.Status = "partial"]
    ELSE IF job.Progress.Failed = job.Progress.Total
    THEN [job EXCEPT !.Status = "failed"]
    ELSE IF job.Progress.Completed + job.Progress.Skipped = job.Progress.Total
    THEN [job EXCEPT !.Status = "completed"]
    ELSE job

ResumableIdle ==
    /\ rangeSupport = FALSE /\ sizeKnown = FALSE /\ sink = "nil"
    /\ metaFiles = EmptyMap /\ activeJobs = EmptyMap
    /\ ctxs = <<>> /\ tasks = <<>>
    /\ tempFiles = EmptyMap /\ finalFiles = EmptyMap
    /\ chanLen = 0 /\ ret = NoJob /\ restarts = 0 /\ removed = {}

bmRest == <<rdVars, mVars, tVars, sVars, gVars>>

itemsStarted ==
    IF batchJobs = <<>> THEN 0
    ELSE LET n[i \in 0..Len(batchJobs)] ==
                IF i = 0 THEN 0 ELSE n[i - 1] + Len(batchJobs[i].URLs)
         IN n[Len(batchJobs)]

StartBatchDownload(jobType, urls, config) ==
    /\ Len(batchJobs) < MaxBatchJobs
    /\ itemsStarted + Len(urls) <= MaxItems
    /\ batchJobs' = Append(batchJobs,
          [Type |-> jobType, URLs |-> urls, Config |-> config,
           Status |-> "pending",
           Progress |-> [Total |-> Len(urls), Completed |-> 0, Failed |-> 0,
                         Skipped |-> 0, InProgress |-> 0],
           Results |-> <<>>,
           pc |-> "start", videos |-> <<>>, reg |-> 0])
    /\ UNCHANGED <<semaphore, bmCtxDone, workers, itemTasks, maxConcurrent, bmRest>>

\* The deferred function of processBatchJob.
finished(job) == [updateJobStatus(job) EXCEPT !.pc = "done"]

\* The URLs of a list that are not in the set bad, in order.
RECURSIVE keep(_, _)
keep(urls, bad) ==
    IF urls = <<>> THEN <<>>
    ELSE IF Len(urls) \in bad
    THEN keep(SubSeq(urls, 1, Len(urls) - 1), bad)
    ELSE Append(keep(SubSeq(urls, 1, Len(urls) - 1), bad), urls[Len(urls)])

\* processURLList up to downloadVideos; bad are the positions of the URLs for
\* which no extractor is found or ExtractVideoInfo fails.
processURLList(job, bad) ==
    LET failedResults == [i \in 1..Cardinality(bad) |->
                            [URL |-> keep(job.URLs, DOMAIN job.URLs \ bad)[i],
                             Status |-> "failed"]]
        allVideos == keep(job.URLs, bad)
        counted == [job EXCEPT !.Results = @ \o failedResults,
                               !.Progress.Failed = @ + Cardinality(bad)]
    IN IF allVideos = <<>>
       THEN finished(updateJobStatus([counted EXCEPT !.Status = "failed"]))
       ELSE [counted EXCEPT !.videos = allVideos, !.pc = "spawn"]

\* processUserProfile up to downloadVideos; ExtractBatch yields one video for a
\* profile URL, or fails.
processUserProfile(job, bad) ==
    LET allVideos == keep(job.URLs, bad) IN
    IF allVideos = <<>>
    THEN finished(updateJobStatus([job EXCEPT !.Status = "failed"]))
    ELSE [job EXCEPT !.Progress.Total = Len(allVideos),
                     !.videos = allVideos, !.pc = "spawn"]

processPlaylist(job) ==
    finished(updateJobStatus([job EXCEPT !.Status = "failed"]))

\* processBatchJob from its start to the first statement of downloadVideos.
processBatchJob(b) ==
    /\ batchJobs[b].pc = "start"
    /\ LET job == [batchJobs[b] EXCEPT !.Status = "running"] IN
       \E bad \in SUBSET DOMAIN job.URLs :
          batchJobs' = [batchJobs EXCEPT ![b] =
              CASE job.Type = "url_list" -> processURLList(job, bad)
                [] job.Type = "user_profile" -> processUserProfile(job, bad)
                [] job.Type = "playlist" -> processPlaylist(job)]
    /\ UNCHANGED <<semaphore, bmCtxDone, workers, itemTasks, maxConcurrent, bmRest>>


\* ---------------------------------------------------------- downloadVideos
\* One turn of the loop up to the go statement: workers.Add(1), go func(v).
Spawn(b) ==
    /\ batchJobs[b].pc = "spawn"
    /\ workers' = workers + 1
    /\ itemTasks' = Append(itemTasks,
          [job |-> b, v |-> Head(batchJobs[b].videos), pc |-> "acquire",
           Status |-> "", reg |-> 0, results |-> <<>>])
    /\ batchJobs' = [batchJobs EXCEPT ![b] =
          [@ EXCEPT !.videos = Tail(@), !.pc = "inc_load"]]
    /\ UNCHANGED <<semaphore, bmCtxDone, maxConcurrent, bmRest>>

\* job.Progress.InProgress++ of the loop: the load.
IncLoad(b) ==
    /\ batchJobs[b].pc = "inc_load"
    /\ batchJobs' = [batchJobs EXCEPT ![b] =
          [@ EXCEPT !.reg = batchJobs[b].Progress.InProgress,
                    !.pc = "inc_store"]]
    /\ UNCHANGED <<semaphore, bmCtxDone, workers, itemTasks, maxConcurrent, bmRest>>

\* job.Progress.InProgress++ of the loop: the store; then the next video, or
\* workers.Wait() after the last one.
IncStore(b) ==
    /\ batchJobs[b].pc = "inc_store"
    /\ batchJobs' = [batchJobs EXCEPT ![b] =
          [@ EXCEPT !.Progress.InProgress = batchJobs[b].reg + 1, !.reg = 0,
                    !.pc = IF batchJobs[b].videos = <<>>
                           THEN "wait" ELSE "spawn"]]
    /\ UNCHANGED <<semaphore, bmCtxDone, workers, itemTasks, maxConcurrent, bmRest>>

\* workers.Wait() returns; processBatchJob calls updateJobStatus and its
\* deferred function calls it again.
Join(b) ==
    /\ batchJobs[b].pc = "wait"
    /\ workers = 0
    /\ batchJobs' = [batchJobs EXCEPT ![b] = finished(updateJobStatus(@))]
    /\ UNCHANGED <<semaphore, bmCtxDone, workers, itemTasks, maxConcurrent, bmRest>>

\* ------------------------------------------------------------ item goroutine
\* The deferred functions of the item goroutine: <-bm.semaphore and
\* bm.workers.Done().
returned(task) == [task EXCEPT !.pc = "done", !.reg = 0, !.results = <<>>]

\* bm.semaphore <- struct{}{}
Acquire_NoGate(t) ==
    /\ itemTasks[t].pc = "acquire"
    /\ semaphore' = semaphore + 1
    /\ itemTasks' = [itemTasks EXCEPT ![t] = [@ EXCEPT !.pc = "check"]]
    /\ UNCHANGED <<bmCtxDone, workers, batchJobs, maxConcurrent, bmRest>>

Acquire(t) ==
    /\ itemTasks[t].pc = "acquire"
    /\ semaphore < maxConcurrent
    /\ semaphore' = semaphore + 1
    /\ itemTasks' = [itemTasks EXCEPT ![t] = [@ EXCEPT !.pc = "check"]]
    /\ UNCHANGED <<bmCtxDone, workers, batchJobs, maxConcurrent, bmRest>>

\* From the cancellation check to the call of bm.downloader.Download, or to
\* the load of job.Progress.Skipped++ on the two paths that skip the item.
Check(t) ==
    /\ itemTasks[t].pc = "check"
    /\ LET job == batchJobs[itemTasks[t].job]
           FilePath == generateFilePath(itemTasks[t].v)
       IN itemTasks' = [itemTasks EXCEPT ![t] =
            IF bmCtxDone
            THEN [@ EXCEPT !.Status = "cancelled", !.pc = "count_store",
                           !.reg = job.Progress.Skipped]
            ELSE IF job.Config.SkipExisting /\ fileExists(FilePath)
            THEN [@ EXCEPT !.Status = "skipped", !.pc = "count_store",
                           !.reg = job.Progress.Skipped]
            ELSE [@ EXCEPT !.Status = "downloading", !.pc = "transfer"]]
    /\ UNCHANGED <<semaphore, bmCtxDone, workers, batchJobs, maxConcurrent, bmRest>>

\* bm.downloader.Download returns.  Its error is non-nil only when no
\* extractor of the Manager accepts the URL; a transfer that failed is
\* reported inside the result, which the item goroutine discards.  Up to the
\* load of job.Progress.Failed++ or job.Progress.Completed++.
DownloadReturns(t) ==
    /\ itemTasks[t].pc = "transfer"
    /\ \E err \in {"nil", "unsupported platform"} :
         LET job == batchJobs[itemTasks[t].job] IN
         itemTasks' = [itemTasks EXCEPT ![t] =
              IF err # "nil"
              THEN [@ EXCEPT !.Status = "failed", !.pc = "count_store",
                             !.reg = job.Progress.Failed]
              ELSE [@ EXCEPT !.Status = "completed", !.pc = "count_store",
                             !.reg = job.Progress.Completed]]
    /\ UNCHANGED <<semaphore, bmCtxDone, workers, batchJobs, maxConcurrent, bmRest>>

\* The store of the counter's ++.  After a cancellation the goroutine returns
\* here; otherwise it goes on to append its result.
CountStore(t) ==
    /\ itemTasks[t].pc = "count_store"
    /\ LET task == itemTasks[t]
           b == task.job
           n == task.reg + 1
       IN
       /\ batchJobs' = [batchJobs EXCEPT ![b] =
            CASE task.Status = "failed" -> [@ EXCEPT !.Progress.Failed = n]
              [] task.Status = "completed" -> [@ EXCEPT !.Progress.Completed = n]
              [] OTHER -> [@ EXCEPT !.Progress.Skipped = n]]
       /\ IF task.Status = "cancelled"
          THEN /\ itemTasks' = [itemTasks EXCEPT ![t] = returned(@)]
               /\ semaphore' = semaphore - 1
               /\ workers' = workers - 1
          ELSE /\ itemTasks' = [itemTasks EXCEPT ![t] =
                    [@ EXCEPT !.pc = "results_load", !.reg = 0]]
               /\ UNCHANGED <<semaphore, workers>>
    /\ UNCHANGED <<bmCtxDone, maxConcurrent, bmRest>>

\* job.Results = append(job.Results, result): the load of the slice.
ResultsLoad(t) ==
    /\ itemTasks[t].pc = "results_load"
    /\ itemTasks' = [itemTasks EXCEPT ![t] =
          [@ EXCEPT !.pc = "results_store",
                    !.results = batchJobs[itemTasks[t].job].Results]]
    /\ UNCHANGED <<semaphore, bmCtxDone, workers, batchJobs, maxConcurrent, bmRest>>

\* The store of the append.  An item skipped because its file exists returns
\* here; the others go on to job.Progress.InProgress--.
ResultsStore(t) ==
    /\ itemTasks[t].pc = "results_store"
    /\ LET task == itemTasks[t]
           result == [URL |-> task.v, Status |-> task.Status]
       IN
       /\ batchJobs' = [batchJobs EXCEPT ![task.job] =
            [@ EXCEPT !.Results = Append(task.results, result)]]
       /\ IF task.Status = "skipped"
          THEN /\ itemTasks' = [itemTasks EXCEPT ![t] = returned(@)]
               /\ semaphore' = semaphore - 1
               /\ workers' = workers - 1
          ELSE /\ itemTasks' = [itemTasks EXCEPT ![t] =
                    [@ EXCEPT !.pc = "dec_load", !.results = <<>>]]
               /\ UNCHANGED <<semaphore, workers>>
    /\ UNCHANGED <<bmCtxDone, maxConcurrent, bmRest>>

\* job.Progress.InProgress--: the load.
DecLoad(t) ==
    /\ itemTasks[t].pc = "dec_load"
    /\ itemTasks' = [itemTasks EXCEPT ![t] =
          [@ EXCEPT !.pc = "dec_store",
                    !.reg = batchJobs[itemTasks[t].job].Progress.InProgress]]
    /\ UNCHANGED <<semaphore, bmCtxDone, workers, batchJobs, maxConcurrent, bmRest>>

\* job.Progress.InProgress--: the store; updateProgress; the goroutine returns.
DecStore(t) ==
    /\ itemTasks[t].pc = "dec_store"
    /\ batchJobs' = [batchJobs EXCEPT ![itemTasks[t].job] =
          [@ EXCEPT !.Progress.InProgress = itemTasks[t].reg - 1]]
    /\ itemTasks' = [itemTasks EXCEPT ![t] = returned(@)]
    /\ semaphore' = semaphore - 1
    /\ workers' = workers - 1
    /\ UNCHANGED <<bmCtxDone, maxConcurrent, bmRest>>

\* CancelJob ignores its job id: it cancels the context of the manager.
CancelJob(jobID) ==
    /\ bmCtxDone' = TRUE
    /\ UNCHANGED <<semaphore, workers, batchJobs, itemTasks, maxConcurrent, bmRest>>

\* --------------------------------------------------- BatchManager, complete
InitBatch ==
    /\ \E maxConc \in 1..MaxConcurrent : NewBatchManager(maxConc)
    /\ ResumableIdle
    /\ ManagerIdle
    /\ M3U8Idle
    /\ NewRegistry

NextBatch ==
    \/ \E jobType \in JobTypes, n \in 0..MaxURLs, SkipExisting \in BOOLEAN :
          StartBatchDownload(jobType, [i \in 1..n |-> i],
                             [SkipExisting |-> SkipExisting])
    \/ \E jobID \in 1..MaxBatchJobs : CancelJob(jobID)
    \/ \E b \in DOMAIN batchJobs : processBatchJob(b)
    \/ \E b \in DOMAIN batchJobs : Spawn(b)
    \/ \E b \in DOMAIN batchJobs : IncLoad(b)
    \/ \E b \in DOMAIN batchJobs : IncStore(b)
    \/ \E b \in DOMAIN batchJobs : Join(b)
    \/ \E t \in DOMAIN itemTasks : Acquire(t)
    \/ \E t \in DOMAIN itemTasks : Check(t)
    \/ \E t \in DOMAIN itemTasks : DownloadReturns(t)
    \/ \E t \in DOMAIN itemTasks : CountStore(t)
    \/ \E t \in DOMAIN itemTasks : ResultsLoad(t)
    \/ \E t \in DOMAIN itemTasks : ResultsStore(t)
    \/ \E t \in DOMAIN itemTasks : DecLoad(t)
    \/ \E t \in DOMAIN itemTasks : DecStore(t)

SpecBatch == InitBatch /\ [][NextBatch]_vars


\* ------------------------------------------------------ BatchManager claims
\* The item goroutines between acquiring and releasing a slot of the gate.
holding == {t \in DOMAIN itemTasks :
                itemTasks[t].pc \notin {"acquire", "done"}}

transferring == {t \in DOMAIN itemTasks : itemTasks[t].pc = "transfer"}

\* C12: at every moment the number of item tasks holding a gate slot (and so
\* the number performing a transfer) is at most maxConcurrent, however many
\* items are queued and across all batch jobs of the manager.
C12_BoundedConcurrency ==
    /\ Cardinality(holding) <= maxConcurrent
    /\ Cardinality(transferring) <= maxConcurrent

\* More items than slots, from two batch jobs: every slot is taken by a
\* transfer and an item of another job waits at the gate.
C12_Witness ==
    /\ Len(itemTasks) > maxConcurrent
    /\ Cardinality(transferring) = maxConcurrent
    /\ \E t \in transferring, w \in DOMAIN itemTasks :
          /\ itemTasks[w].pc = "acquire"
          /\ itemTasks[w].job # itemTasks[t].job


\* C13: when a batch job has finished, its status is completed if no item
\* failed, failed if every item failed, and partial for every other mix of
\* completed, failed and skipped items (for F failed of N items: partial iff
\* 0 < F < N, failed iff F = N, completed iff F = 0).  Stated for the jobs
\* whose counters account for every item.
C13_FinalStatus ==
    \A b \in DOMAIN batchJobs :
        LET job == batchJobs[b]
            F == job.Progress.Failed
            N == job.Progress.Total
        IN ( /\ job.pc = "done"
             /\ N > 0
             /\ job.Progress.Completed + F + job.Progress.Skipped = N )
           => job.Status = IF F = 0 THEN "completed"
                           ELSE IF F = N THEN "failed" ELSE "partial"


\* C14: the updates of a batch job's counters and result list by concurrent
\* item tasks are serialized: InProgress is never negative and, once all item
\* tasks of a URL-list job have joined, Completed + Failed + Skipped = Total,
\* InProgress = 0 and Results holds one result per item.  Stated for the runs
\* in which nothing is cancelled.
C14_Accounting ==
    \A b \in DOMAIN batchJobs :
        LET job == batchJobs[b] IN
        (~bmCtxDone /\ job.Type = "url_list") =>
            /\ job.Progress.InProgress >= 0
            /\ job.pc = "done" =>
                /\ job.Progress.Completed + job.Progress.Failed
                      + job.Progress.Skipped = job.Progress.Total
                /\ job.Progress.InProgress = 0
                /\ Len(job.Results) = Len(job.URLs)


\* The item goroutine has not yet recorded an outcome for its item.
undecided(task) == task.pc \in {"acquire", "check", "transfer"}

\* C15: once the batch is cancelled no new transfer is issued and the
\* transfers in flight are aborted: every item whose outcome is recorded
\* after the cancellation is counted as skipped, never as failed or completed.
C15_CancelledItemsAreSkipped ==
    [][\A t \in DOMAIN itemTasks :
          (bmCtxDone /\ undecided(itemTasks[t])) =>
              /\ itemTasks[t].pc # "transfer" => itemTasks'[t].pc # "transfer"
              /\ ~undecided(itemTasks'[t]) => itemTasks'[t].Status = "cancelled"
      ]_vars


\* C16: when SkipExisting is set and the item's destination file already
\* exists, no transfer is performed for the item: it is never downloading,
\* completed or failed.
C16_ExistingFileIsSkipped ==
    \A t \in DOMAIN itemTasks :
        ( /\ batchJobs[itemTasks[t].job].Config.SkipExisting
          /\ generateFilePath(itemTasks[t].v) \in diskFiles )
        => itemTasks[t].Status \notin {"downloading", "completed", "failed"}


\* ========================================================================
\* Part 3: the downloader.Manager.  Start starts m.workers goroutines that
\* take requests from m.queue; Download puts its request into the queue and
\* also calls processDownload itself; processDownload starts a goroutine that
\* resolves and transfers the request and puts the result into a channel of
\* its own.
MaxWorkers == 2
QueueCap == 2
MaxCalls == 3
MaxStarts == 1

mRest == <<rdVars, bmVars, tVars, sVars, gVars>>

\* URL 1 is accepted by an extractor of the manager, URL 2 by none.
ManagerURLs == {1, 2}

detectPlatform(url) == IF url = 1 THEN "tiktok" ELSE ""

Start ==
    /\ Len(workerTasks) < MaxStarts * MaxWorkers
    /\ workerTasks' = workerTasks \o [i \in 1..MaxWorkers |-> "running"]
    /\ wg' = wg + MaxWorkers
    /\ UNCHANGED <<queue, mCtxDone, calls, procs, stopPc, batches, mRest>>

\* Stop: m.cancel(), then it waits in m.wg.Wait().
Stop ==
    /\ stopPc = "idle"
    /\ mCtxDone' = TRUE
    /\ stopPc' = "waiting"
    /\ UNCHANGED <<queue, wg, workerTasks, calls, procs, batches, mRest>>

StopReturns_NoWait ==
    /\ stopPc = "waiting"
    /\ stopPc' = "returned"
    /\ UNCHANGED <<queue, mCtxDone, wg, workerTasks, calls, procs, batches, mRest>>

\* m.wg.Wait() returns and so does Stop.
StopReturns ==
    /\ stopPc = "waiting"
    /\ wg = 0
    /\ stopPc' = "returned"
    /\ UNCHANGED <<queue, mCtxDone, wg, workerTasks, calls, procs, batches, mRest>>

\* A call of Download up to its send on m.queue: the request is the call.
newCall(url, batch) ==
    [URL |-> url, batch |-> batch, chan |-> <<0, "none">>, result |-> "none",
     pc |-> IF detectPlatform(url) = "" THEN "returned" ELSE "enqueue",
     err |-> IF detectPlatform(url) = "" THEN "unsupported platform" ELSE "nil"]

Download(url) ==
    /\ Len(calls) < MaxCalls
    /\ calls' = Append(calls, newCall(url, 0))
    /\ UNCHANGED <<queue, mCtxDone, wg, workerTasks, procs, stopPc, batches, mRest>>

\* DownloadBatch up to wg.Wait(): one goroutine per URL, each calling Download.
DownloadBatch(urls) ==
    /\ Len(calls) + Len(urls) <= MaxCalls
    /\ batches' = Append(batches, [pc |-> "waiting", urls |-> urls,
                                   first |-> Len(calls), results |-> <<>>,
                                   err |-> "nil"])
    /\ calls' = calls \o [i \in 1..Len(urls) |->
                              newCall(urls[i], Len(batches) + 1)]
    /\ UNCHANGED <<queue, mCtxDone, wg, workerTasks, procs, stopPc, mRest>>

\* The nil *DownloadResult.
nilResult ==
    [req |-> 0, by |-> "none", Success |-> FALSE, Message |-> "",
     Error |-> "nil"]

\* wg.Wait() of DownloadBatch returns: every goroutine of the batch is done.
\* results[idx] is what Download returned to goroutine idx, nil when it
\* returned an error; the error of the batch says that some call did.
BatchReturns(b) ==
    /\ batches[b].pc = "waiting"
    /\ \A c \in DOMAIN calls : calls[c].batch = b => calls[c].pc = "returned"
    /\ LET call(i) == calls[batches[b].first + i]
           n == Len(batches[b].urls)
       IN batches' = [batches EXCEPT ![b] =
             [@ EXCEPT !.pc = "returned",
                       !.results = [i \in 1..n |->
                                      IF call(i).err # "nil" THEN nilResult
                                      ELSE call(i).result],
                       !.err = IF \E i \in 1..n : call(i).err # "nil"
                               THEN "some downloads failed" ELSE "nil"]]
    /\ UNCHANGED <<queue, mCtxDone, wg, workerTasks, calls, procs, stopPc, mRest>>

\* processDownload(req): a new goroutine with a new result channel.  A
\* request is processed by the Download call that made it and by the worker
\* that takes it from the queue.
processDownload(req, by) ==
    Put(procs, <<req, by>>,
        [pc |-> "running", result |-> "none", extracted |-> FALSE])

\* m.queue <- req, then result := <-m.processDownload(req) up to the receive.
Enqueue(c) ==
    /\ calls[c].pc = "enqueue"
    /\ Len(queue) < QueueCap
    /\ queue' = Append(queue, c)
    /\ procs' = processDownload(c, "caller")
    /\ calls' = [calls EXCEPT ![c] =
                    [@ EXCEPT !.pc = "wait", !.chan = <<c, "caller">>]]
    /\ UNCHANGED <<mCtxDone, wg, workerTasks, stopPc, batches, mRest>>

\* The goroutine of processDownload ends: it has put its result into its
\* channel and closed it.
Finish(p) ==
    /\ procs[p].pc = "running"
    /\ \E Success \in BOOLEAN :
         procs' = [procs EXCEPT ![p] =
            [@ EXCEPT !.pc = "done",
                      !.result = [req |-> p[1], by |-> p[2],
                                  Success |-> Success]]]
    /\ UNCHANGED <<queue, mCtxDone, wg, workerTasks, calls, stopPc, batches, mRest>>

Receive_AnyChannel(c) ==
    /\ calls[c].pc = "wait"
    /\ \E p \in DOMAIN procs :
         /\ procs[p].pc = "done"
         /\ calls' = [calls EXCEPT ![c] =
                [@ EXCEPT !.pc = "returned", !.result = procs[p].result]]
    /\ UNCHANGED <<queue, mCtxDone, wg, workerTasks, procs, stopPc, batches, mRest>>

\* Download receives from the channel its processDownload call returned.
Receive(c) ==
    /\ calls[c].pc = "wait"
    /\ procs[calls[c].chan].pc = "done"
    /\ calls' = [calls EXCEPT ![c] =
            [@ EXCEPT !.pc = "returned", !.result = procs[calls[c].chan].result]]
    /\ UNCHANGED <<queue, mCtxDone, wg, workerTasks, procs, stopPc, batches, mRest>>

\* worker: case req := <-m.queue, then processDownload(req), whose channel
\* it drops.
WorkerTakes(w) ==
    /\ workerTasks[w] = "running"
    /\ queue # <<>>
    /\ queue' = Tail(queue)
    /\ procs' = processDownload(Head(queue), "worker")
    /\ UNCHANGED <<mCtxDone, wg, workerTasks, calls, stopPc, batches, mRest>>

\* worker: case <-m.ctx.Done(), return; the deferred m.wg.Done().
WorkerExits(w) ==
    /\ workerTasks[w] = "running"
    /\ mCtxDone
    /\ workerTasks' = [workerTasks EXCEPT ![w] = "exited"]
    /\ wg' = wg - 1
    /\ UNCHANGED <<queue, mCtxDone, calls, procs, stopPc, batches, mRest>>

InitManager ==
    /\ ManagerIdle
    /\ M3U8Idle
    /\ NewRegistry
    /\ ResumableIdle
    /\ NewBatchManager(1)

NextManager ==
    \/ Start
    \/ Stop
    \/ StopReturns
    \/ \E url \in ManagerURLs : Download(url)
    \/ \E n \in 1..MaxCalls : \E urls \in [1..n -> ManagerURLs] :
          DownloadBatch(urls)
    \/ \E b \in DOMAIN batches : BatchReturns(b)
    \/ \E c \in DOMAIN calls : Enqueue(c)
    \/ \E p \in DOMAIN procs : Finish(p)
    \/ \E c \in DOMAIN calls : Receive(c)
    \/ \E w \in DOMAIN workerTasks : WorkerTakes(w)
    \/ \E w \in DOMAIN workerTasks : WorkerExits(w)

SpecManager == InitManager /\ [][NextManager]_vars


\* ----------------------------------------------------------- Manager claims
\* C17: Stop signals cancellation and waits on the join barrier: at the step
\* at which Stop returns every worker goroutine started by Start has returned,
\* and a worker that has returned never runs again.
C17_StopWaitsForWorkers ==
    [][ /\ (stopPc = "waiting" /\ stopPc' = "returned") =>
              /\ mCtxDone
              /\ \A w \in DOMAIN workerTasks' : workerTasks'[w] = "exited"
        /\ \A w \in DOMAIN workerTasks :
              workerTasks[w] = "exited" => workerTasks'[w] = "exited"
      ]_vars

\* Stop has returned after the workers had taken requests from the queue, and
\* with a request still in the queue.
C17_Witness ==
    /\ stopPc = "returned"
    /\ workerTasks # <<>>
    /\ \A w \in DOMAIN workerTasks : workerTasks[w] = "exited"
    /\ \E p \in DOMAIN procs : p[2] = "worker"
    /\ queue # <<>>

\* C18: every call of Download that returns a result returns the result
\* produced for its own request, under every interleaving of callers and
\* workers.
C18_OwnResult ==
    \A c \in DOMAIN calls :
        (calls[c].pc = "returned" /\ calls[c].err = "nil")
            => calls[c].result.req = c

\* Two calls whose requests were in process at the same time have returned
\* different results, and a worker has produced one more result for one of
\* the two requests.
C18_Witness ==
    \E c1, c2 \in DOMAIN calls :
        /\ calls[c1].pc = "returned" /\ calls[c1].err = "nil"
        /\ calls[c2].pc = "returned" /\ calls[c2].err = "nil"
        /\ calls[c1].result.Success # calls[c2].result.Success
        /\ <<c1, "worker">> \in DOMAIN procs
        /\ procs[<<c1, "worker">>].pc = "done"

\* The goroutines of processDownload that are resolving or transferring.
processing == {p \in DOMAIN procs : procs[p].pc = "running"}

\* C19: the number of requests being processed at the same time never exceeds
\* the configured worker count, however many Download calls are outstanding.
C19_BoundedWorkerPool == Cardinality(processing) <= MaxWorkers

\* C20: at no time are more per-URL tasks of a DownloadBatch call running than
\* the configured concurrency limit.
C20_BoundedBatch ==
    \A b \in DOMAIN batches :
        Cardinality({c \in DOMAIN calls :
                        calls[c].batch = b /\ calls[c].pc # "returned"})
            <= MaxWorkers

\* ---------------------------------------------------------------------
\* Part 4: Manager.processDownload step by step, with the metadata store
\* and the transfer goroutines of utils.DownloadManager.
\* ---------------------------------------------------------------------

\* The calls of Manager.Download this specification lets run.
MaxProcessCalls == 2

\* ExtractVideoInfo gives the descriptor of a URL; its ID names it in the store.
videoID(url) == url

\* generateOutputPath: the path is made from the descriptor.
generateOutputPath(id) == <<"videos", id>>

\* No downloadFile goroutine has sent on a closed channel: the process runs.
alive == \A p \in DOMAIN transfers : transfers[p] # "panicked"

DownloadResult(p, Success, Message, Error) ==
    [req |-> p[1], by |-> p[2], Success |-> Success,
     Message |-> Message, Error |-> Error]

\* extractor.ExtractVideoInfo returns an error.
ExtractFails(p) ==
    /\ procs[p].pc = "running"
    /\ procs' = [procs EXCEPT ![p] =
          [pc |-> "done", extracted |-> TRUE,
           result |-> DownloadResult(p, FALSE, "",
                                     "error extracting video info")]]
    /\ UNCHANGED <<queue, mCtxDone, wg, workerTasks, calls, stopPc, batches,
                   tVars, rdVars, bmVars, sVars, gVars>>

\* extractor.ExtractVideoInfo returns the descriptor; then the lookup in the
\* store, and for a descriptor that is not completed SaveVideoInfo, the
\* progress channel and m.downloader.Download, which registers a job, starts
\* downloadFile in a goroutine of its own and returns nil.
Extracted(p) ==
    /\ procs[p].pc = "running"
    /\ LET id == videoID(calls[p[1]].URL)
       IN IF id \in DOMAIN storage /\ storage[id] = "completed"
          THEN /\ procs' = [procs EXCEPT ![p] =
                    [pc |-> "done", extracted |-> TRUE,
                     result |-> DownloadResult(p, TRUE, "Already downloaded",
                                               "nil")]]
               /\ UNCHANGED tVars
          ELSE /\ procs' = [procs EXCEPT ![p] =
                    [pc |-> "close", extracted |-> TRUE, result |-> "none"]]
               /\ storage' = Put(storage, id, "pending")
               /\ progressChans' = Put(progressChans, p, "open")
               /\ transfers' = Put(transfers, p, "running")
               /\ UNCHANGED <<outputFiles, dmJobs>>
    /\ UNCHANGED <<queue, mCtxDone, wg, workerTasks, calls, stopPc, batches,
                   rdVars, bmVars, sVars, gVars>>

\* close(progressChan), err is nil, os.Stat(outputPath), SaveVideoInfo and the
\* result "Download completed".
CloseProgress(p) ==
    /\ procs[p].pc = "close"
    /\ LET id == videoID(calls[p[1]].URL)
       IN storage' = Put(storage, id,
                         IF generateOutputPath(id) \in outputFiles
                         THEN "completed" ELSE "pending")
    /\ progressChans' = [progressChans EXCEPT ![p] = "closed"]
    /\ procs' = [procs EXCEPT ![p] =
          [@ EXCEPT !.pc = "done",
                    !.result = DownloadResult(p, TRUE, "Download completed",
                                              "nil")]]
    /\ UNCHANGED <<queue, mCtxDone, wg, workerTasks, calls, stopPc, batches,
                   transfers, outputFiles, dmJobs, rdVars, bmVars, sVars,
                   gVars>>

\* downloadFile: the size probe, the temporary file or the request fails, or
\* io.Copy after the first report, or the move.
TransferFails(p) ==
    /\ transfers[p] \in {"running", "reported"}
    /\ transfers' = [transfers EXCEPT ![p] = "failed"]
    /\ UNCHANGED <<mVars, storage, progressChans, outputFiles, dmJobs, rdVars,
                   bmVars, sVars, gVars>>

\* downloadFile: ProgressReader.Read reports, progressChan <- progress.  The
\* goroutine reading the channel receives it; a send on a closed channel
\* panics.
TransferProgress(p) ==
    /\ transfers[p] = "running"
    /\ transfers' = [transfers EXCEPT ![p] =
          IF progressChans[p] = "closed" THEN "panicked" ELSE "reported"]
    /\ UNCHANGED <<mVars, storage, progressChans, outputFiles, dmJobs, rdVars,
                   bmVars, sVars, gVars>>

\* downloadFile: io.Copy ends, the temporary file is moved to job.FilePath.
TransferEnds(p) ==
    /\ transfers[p] = "reported"
    /\ transfers' = [transfers EXCEPT ![p] = "completed"]
    /\ outputFiles' = outputFiles \cup
                        {generateOutputPath(videoID(calls[p[1]].URL))}
    /\ UNCHANGED <<mVars, storage, progressChans, dmJobs, rdVars, bmVars, sVars,
                   gVars>>

\* The store holds nothing, or the descriptor of URL 1 from an earlier run
\* that completed.
InitProcess ==
    /\ NewManager
    /\ NewDownloadManager
    /\ \/ storage = EmptyMap
       \/ storage = Put(EmptyMap, videoID(1), "completed")
    /\ ResumableIdle
    /\ NewBatchManager(1)
    /\ M3U8Idle
    /\ NewRegistry

NextProcess ==
    \/ alive /\ Start
    \/ \E url \in ManagerURLs :
          alive /\ Len(calls) < MaxProcessCalls /\ Download(url)
    \/ \E n \in 1..MaxProcessCalls : \E urls \in [1..n -> ManagerURLs] :
          alive /\ Len(calls) + n <= MaxProcessCalls /\ DownloadBatch(urls)
    \/ \E b \in DOMAIN batches : alive /\ BatchReturns(b)
    \/ \E c \in DOMAIN calls : alive /\ Enqueue(c)
    \/ \E c \in DOMAIN calls : alive /\ Receive(c)
    \/ \E w \in DOMAIN workerTasks : alive /\ WorkerTakes(w)
    \/ \E p \in DOMAIN procs : alive /\ ExtractFails(p)
    \/ \E p \in DOMAIN procs : alive /\ Extracted(p)
    \/ \E p \in DOMAIN procs : alive /\ CloseProgress(p)
    \/ \E p \in DOMAIN transfers : alive /\ TransferFails(p)
    \/ \E p \in DOMAIN transfers : alive /\ TransferProgress(p)
    \/ \E p \in DOMAIN transfers : alive /\ TransferEnds(p)

SpecProcess == InitProcess /\ [][NextProcess]_vars

\* C21: a processing task that answers "Already downloaded" from the store
\* has not called the extractor for the URL and has started no transfer.
C21_CachedWithoutResolving ==
    \A p \in DOMAIN procs :
        (procs[p].pc = "done" /\ procs[p].result.Message = "Already downloaded")
            => ~procs[p].extracted /\ p \notin DOMAIN transfers

\* C22: when a call of Download has returned the result of a processing task
\* that started a transfer, that transfer has ended, and the result says
\* Success exactly when the transfer put the file at the output path.
C22_ResultAfterTransfer ==
    \A c \in DOMAIN calls :
        (calls[c].pc = "returned" /\ calls[c].chan \in DOMAIN transfers)
            => /\ transfers[calls[c].chan] \in {"completed", "failed"}
               /\ calls[c].result.Success
                     <=> transfers[calls[c].chan] = "completed"

\* C23: when DownloadBatch has returned, every per-URL task has ended,
\* results[i] is the result of processing urls[i] for every URL that was
\* processed, whatever happened to the other URLs, and when some URL failed
\* (Download returned an error for it, or its result carries one) the batch
\* returns an error together with these results.
C23_BatchResults ==
    \A b \in DOMAIN batches :
        batches[b].pc = "returned" =>
            LET urls == batches[b].urls
                results == batches[b].results
                c(i) == batches[b].first + i
            IN /\ \A i \in DOMAIN urls :
                     /\ calls[c(i)].pc = "returned"
                     /\ calls[c(i)].URL = urls[i]
                     /\ detectPlatform(urls[i]) # "" =>
                            /\ results[i].req = c(i)
                            /\ results[i] = procs[<<c(i), "caller">>].result
               /\ (\E i \in DOMAIN urls :
                        \/ calls[c(i)].err # "nil"
                        \/ results[i].Error # "nil")
                     => batches[b].err # "nil"

\* ---------------------------------------------------------------------
\* Part 5: internal/utils, M3U8Downloader.  One call of DownloadM3U8 with
\* its segment goroutines; text is a sequence of characters.
\* ---------------------------------------------------------------------

MaxLines == 3
MaxSegWorkers == 2

m3u8URL == <<"h", "t", "t", "p", "/", "p">>

\* The lines a playlist is made of: blank, a tag, an absolute and a relative
\* segment URL.
Lines == {<<" ">>, <<"#", "E">>, <<"h", "t", "t", "p", "/", "a">>, <<"b">>}

RECURSIVE TrimSpace(_)
TrimSpace(line) ==
    IF line = <<>> THEN <<>>
    ELSE IF Head(line) = " " THEN TrimSpace(Tail(line))
    ELSE IF line[Len(line)] = " "
         THEN TrimSpace(SubSeq(line, 1, Len(line) - 1))
    ELSE line

HasPrefix(line, prefix) ==
    /\ Len(line) >= Len(prefix)
    /\ SubSeq(line, 1, Len(prefix)) = prefix

\* strings.LastIndex, counted from 0; -1 when the character is not there.
LastIndex(text, ch) ==
    LET at == {i \in 1..Len(text) : text[i] = ch}
    IN IF at = {} THEN -1 ELSE (CHOOSE i \in at : \A j \in at : j <= i) - 1

baseURI == SubSeq(m3u8URL, 1, LastIndex(m3u8URL, "/") + 1)

\* The scanner loop of DownloadM3U8: the segment URLs of the playlist.
RECURSIVE parsePlaylist(_)
parsePlaylist(lines) ==
    IF lines = <<>> THEN <<>>
    ELSE LET line == TrimSpace(Head(lines))
         IN (IF line # <<>> /\ ~HasPrefix(line, <<"#">>)
             THEN IF HasPrefix(line, <<"h", "t", "t", "p">>)
                  THEN <<line>> ELSE <<baseURI \o line>>
             ELSE <<>>)
            \o parsePlaylist(Tail(lines))

\* What the server sends for a segment URL.
segmentBody(url) == <<url>>

returnM3U8(err) == [m3u8 EXCEPT !.pc = "returned", !.err = err]

\* The playlist request fails or is answered with another status than 200.
PlaylistFails ==
    /\ m3u8.pc = "get"
    /\ m3u8' = returnM3U8("error downloading M3U8 playlist")
    /\ UNCHANGED <<segTasks, sem, segmentFiles, segmentDir, downloadErrors,
                   outputFile, fetchOrder, rdVars, bmVars, mVars, tVars, gVars>>

\* The playlist arrives: it is parsed, the temporary directory is made and
\* one goroutine per segment is started; DownloadM3U8 is then in wg.Wait().
PlaylistFetched ==
    /\ m3u8.pc = "get"
    /\ LET segments == parsePlaylist(m3u8.lines)
       IN IF segments = <<>>
          THEN /\ m3u8' = returnM3U8("no segments found in M3U8 playlist")
               /\ UNCHANGED <<segTasks, segmentFiles>>
          ELSE \E MkdirAll \in BOOLEAN :
                 IF MkdirAll
                 THEN /\ m3u8' = [m3u8 EXCEPT !.pc = "wait",
                                              !.segments = segments]
                      /\ segTasks' = [i \in 1..Len(segments) |-> "acquire"]
                      /\ segmentFiles' = [i \in 1..Len(segments) |-> 0]
                 ELSE /\ m3u8' = returnM3U8("error creating temp directory")
                      /\ UNCHANGED <<segTasks, segmentFiles>>
    /\ UNCHANGED <<sem, segmentDir, downloadErrors, outputFile, fetchOrder,
                   rdVars, bmVars, mVars, tVars, gVars>>

AcquireSem_NoGate(i) ==
    /\ segTasks[i] = "acquire"
    /\ sem' = sem + 1
    /\ segTasks' = [segTasks EXCEPT ![i] = "fetch"]
    /\ UNCHANGED <<m3u8, segmentFiles, segmentDir, downloadErrors, outputFile,
                   fetchOrder, rdVars, bmVars, mVars, tVars, gVars>>

\* sem <- struct{}{}
AcquireSem(i) ==
    /\ segTasks[i] = "acquire"
    /\ sem < m3u8.maxWorkers
    /\ sem' = sem + 1
    /\ segTasks' = [segTasks EXCEPT ![i] = "fetch"]
    /\ UNCHANGED <<m3u8, segmentFiles, segmentDir, downloadErrors, outputFile,
                   fetchOrder, rdVars, bmVars, mVars, tVars, gVars>>

\* downloadSegment returns an error: before the file was created, or from
\* io.Copy with a part of the body (here none of it) in the file.
SegmentFails(i) ==
    /\ segTasks[i] = "fetch"
    /\ \E created \in BOOLEAN :
         segmentDir' = IF created THEN Put(segmentDir, i, <<>>) ELSE segmentDir
    /\ downloadErrors' = downloadErrors + 1
    /\ sem' = sem - 1
    /\ segTasks' = [segTasks EXCEPT ![i] = "done"]
    /\ UNCHANGED <<m3u8, segmentFiles, outputFile, fetchOrder,
                   rdVars, bmVars, mVars, tVars, gVars>>

SegmentFetched_NextSlot(i) ==
    /\ segTasks[i] = "fetch"
    /\ segmentDir' = Put(segmentDir, i, segmentBody(m3u8.segments[i]))
    /\ segmentFiles' = [segmentFiles EXCEPT ![Len(fetchOrder) + 1] = i]
    /\ fetchOrder' = Append(fetchOrder, i)
    /\ IF m3u8.progressChan = "nil"
       THEN /\ sem' = sem - 1
            /\ segTasks' = [segTasks EXCEPT ![i] = "done"]
       ELSE /\ segTasks' = [segTasks EXCEPT ![i] = "report"]
            /\ UNCHANGED sem
    /\ UNCHANGED <<m3u8, downloadErrors, outputFile,
                   rdVars, bmVars, mVars, tVars, gVars>>

\* downloadSegment returns nil: the body is in segment_<index>.ts, and
\* segmentFiles[index] = segmentFile.  Without a progress channel the
\* goroutine ends here.
SegmentFetched(i) ==
    /\ segTasks[i] = "fetch"
    /\ segmentDir' = Put(segmentDir, i, segmentBody(m3u8.segments[i]))
    /\ segmentFiles' = [segmentFiles EXCEPT ![i] = i]
    /\ fetchOrder' = Append(fetchOrder, i)
    /\ IF m3u8.progressChan = "nil"
       THEN /\ sem' = sem - 1
            /\ segTasks' = [segTasks EXCEPT ![i] = "done"]
       ELSE /\ segTasks' = [segTasks EXCEPT ![i] = "report"]
            /\ UNCHANGED sem
    /\ UNCHANGED <<m3u8, downloadErrors, outputFile,
                   rdVars, bmVars, mVars, tVars, gVars>>

\* progressChan <- progress on the unbuffered channel: the caller receives.
ReportProgress(i) ==
    /\ segTasks[i] = "report"
    /\ m3u8.progressChan = "read"
    /\ sem' = sem - 1
    /\ segTasks' = [segTasks EXCEPT ![i] = "done"]
    /\ UNCHANGED <<m3u8, segmentFiles, segmentDir, downloadErrors, outputFile,
                   fetchOrder, rdVars, bmVars, mVars, tVars, gVars>>

\* mergeSegments: the content of the first k files of segmentFiles, in the
\* order of the slice.
RECURSIVE merged(_)
merged(k) ==
    IF k = 0 THEN <<>>
    ELSE merged(k - 1) \o segmentDir[segmentFiles[k]]

\* The segment files mergeSegments can open, from the first on.
openable ==
    LET bad == {j \in DOMAIN segmentFiles :
                   segmentFiles[j] \notin DOMAIN segmentDir}
    IN IF bad = {} THEN Len(segmentFiles)
       ELSE (CHOOSE j \in bad : \A x \in bad : j <= x) - 1

\* mergeSegments: -1 when os.Create(outputPath) fails, else the number of
\* segment files copied before an error; all of them when there is none.
mergeSegments(k) ==
    /\ k \in -1..openable
    /\ outputFile' = IF k = -1 THEN outputFile ELSE <<merged(k)>>
    /\ m3u8' = returnM3U8(IF k = Len(segmentFiles) THEN "nil"
                          ELSE "error merging segments")

WaitReturns_MergeAnyway ==
    /\ m3u8.pc = "wait"
    /\ \A i \in DOMAIN segTasks : segTasks[i] = "done"
    /\ \E k \in -1..Len(segmentFiles) : mergeSegments(k)
    /\ segmentDir' = EmptyMap
    /\ UNCHANGED <<segTasks, sem, segmentFiles, downloadErrors, fetchOrder,
                   rdVars, bmVars, mVars, tVars, gVars>>

\* wg.Wait() returns: an error when a fetch failed, else mergeSegments; the
\* deferred os.RemoveAll(tempDir) runs before DownloadM3U8 returns.
WaitReturns ==
    /\ m3u8.pc = "wait"
    /\ \A i \in DOMAIN segTasks : segTasks[i] = "done"
    /\ IF downloadErrors > 0
       THEN /\ m3u8' = returnM3U8("errors occurred while downloading segments")
            /\ UNCHANGED outputFile
       ELSE \E k \in -1..Len(segmentFiles) : mergeSegments(k)
    /\ segmentDir' = EmptyMap
    /\ UNCHANGED <<segTasks, sem, segmentFiles, downloadErrors, fetchOrder,
                   rdVars, bmVars, mVars, tVars, gVars>>

\* DownloadM3U8 has been called with a playlist of up to MaxLines lines on
\* the server, by a caller that passes no progress channel, or one it reads,
\* or one it does not read.
InitM3U8 ==
    /\ \E n \in 0..MaxLines : \E lines \in [1..n -> Lines] :
       \E maxWorkers \in 0..MaxSegWorkers :
       \E progressChan \in {"nil", "read", "unread"} :
          m3u8 = [pc |-> "get", lines |-> lines, segments |-> <<>>,
                  maxWorkers |-> maxWorkers, progressChan |-> progressChan,
                  err |-> "none"]
    /\ segTasks = <<>>
    /\ sem = 0
    /\ segmentFiles = <<>>
    /\ segmentDir = EmptyMap
    /\ downloadErrors = 0
    /\ outputFile = <<>>
    /\ fetchOrder = <<>>
    /\ ResumableIdle
    /\ NewBatchManager(1)
    /\ ManagerIdle
    /\ NewRegistry

NextM3U8 ==
    \/ PlaylistFails
    \/ PlaylistFetched
    \/ \E i \in DOMAIN segTasks : AcquireSem(i)
    \/ \E i \in DOMAIN segTasks : SegmentFails(i)
    \/ \E i \in DOMAIN segTasks : SegmentFetched(i)
    \/ \E i \in DOMAIN segTasks : ReportProgress(i)
    \/ WaitReturns

SpecM3U8 == InitM3U8 /\ [][NextM3U8]_vars

\* The segments of the playlist one after the other, from the first to the
\* k-th.
RECURSIVE inPlaylistOrder(_)
inPlaylistOrder(k) ==
    IF k = 0 THEN <<>>
    ELSE inPlaylistOrder(k - 1) \o segmentBody(m3u8.segments[k])

\* C24: the output file holds the segments in playlist order, whatever the
\* order in which the fetches completed: all of them when DownloadM3U8
\* returns nil, and a run of the first ones when the merge stopped early.
C24_PlaylistOrder ==
    /\ outputFile # <<>> =>
          \E k \in 0..Len(m3u8.segments) : outputFile[1] = inPlaylistOrder(k)
    /\ (m3u8.pc = "returned" /\ m3u8.err = "nil") =>
          outputFile = <<inPlaylistOrder(Len(m3u8.segments))>>

\* A call has returned nil after two different segments were fetched in the
\* reverse of their playlist order.
C24_Witness ==
    /\ m3u8.pc = "returned" /\ m3u8.err = "nil"
    /\ \E a, b \in DOMAIN fetchOrder :
          /\ a < b /\ fetchOrder[a] > fetchOrder[b]
          /\ m3u8.segments[fetchOrder[a]] # m3u8.segments[fetchOrder[b]]

\* C25: once a segment fetch has failed no file is produced at outputPath,
\* DownloadM3U8 returns an error, and whatever it returns, no temporary
\* segment file is left when it has returned.
C25_FailureLeavesNothing ==
    /\ downloadErrors > 0 => outputFile = <<>>
    /\ (m3u8.pc = "returned" /\ downloadErrors > 0) => m3u8.err # "nil"
    /\ m3u8.pc = "returned" => segmentDir = EmptyMap

\* A call has returned after one fetch failed and another one had put its
\* segment file into the temporary directory.
C25_Witness ==
    /\ m3u8.pc = "returned"
    /\ downloadErrors > 0
    /\ fetchOrder # <<>>

\* The segment fetches in progress.
fetching == {i \in DOMAIN segTasks : segTasks[i] = "fetch"}

\* C26: never more than maxWorkers segment fetches are in progress, whatever
\* the number of segments.
C26_BoundedFetches == Cardinality(fetching) <= m3u8.maxWorkers

\* maxWorkers fetches are in progress and a further segment waits for a
\* token.
C26_Witness ==
    /\ m3u8.pc = "wait"
    /\ m3u8.maxWorkers > 0
    /\ Cardinality(fetching) = m3u8.maxWorkers
    /\ \E i \in DOMAIN segTasks : segTasks[i] = "acquire"

\* ---------------------------------------------------------------------
\* Part 6: internal/platform/registry, the Registry.  A URL is a sequence of
\* its parts; a pattern is the run of parts it asks for, anywhere in the URL,
\* as regexp.MatchString does not anchor.
\* ---------------------------------------------------------------------

Platforms == {"tiktok", "kuaishou"}

RegistryURLs ==
    {<<"https://", "tiktok.com", "/v">>, <<"https://", "TikTok.com", "/v">>,
     <<"https://", "kuaishou.com", "/v">>, <<"https://", "example.com", "/v">>}

RegistryPatterns == {<<"tiktok.com">>, <<"example.com", "/v">>, <<"/v">>}

\* strings.Contains
Contains(text, part) ==
    \E i \in 0..(Len(text) - Len(part)) :
        SubSeq(text, i + 1, i + Len(part)) = part

\* strings.ToLower
ToLower(text) ==
    [i \in DOMAIN text |-> IF text[i] = "TikTok.com" THEN "tiktok.com"
                           ELSE text[i]]

\* regexp.MatchString(pattern, url)
MatchString(pattern, url) == Contains(url, pattern)

detectPlatformByDomain(url) ==
    LET lowerURL == ToLower(url)
    IN IF Contains(lowerURL, <<"tiktok.com">>)
       THEN [platform |-> "tiktok", err |-> "nil"]
       ELSE IF Contains(lowerURL, <<"xiaohongshu.com">>)
               \/ Contains(lowerURL, <<"xhslink.com">>)
       THEN [platform |-> "xhs", err |-> "nil"]
       ELSE IF Contains(lowerURL, <<"kuaishou.com">>)
       THEN [platform |-> "kuaishou", err |-> "nil"]
       ELSE [platform |-> "", err |-> "unsupported platform for URL"]

\* What DetectPlatform can return: the platform of a matching pattern, any
\* of them as the map is ranged over in no fixed order, else what the domain
\* says.
DetectPlatform(url) ==
    LET matching == {pattern \in DOMAIN patterns : MatchString(pattern, url)}
    IN IF matching # {}
       THEN {[platform |-> patterns[pattern], err |-> "nil"] :
                pattern \in matching}
       ELSE {detectPlatformByDomain(url)}

GetExtractor(platform) ==
    IF platform \in extractors
    THEN [extractor |-> platform, platform |-> platform, err |-> "nil"]
    ELSE [extractor |-> "nil", platform |-> "",
          err |-> "no extractor registered for platform"]

\* What GetExtractorForURL can return.
GetExtractorForURL(url) ==
    {IF d.err # "nil"
     THEN [extractor |-> "nil", platform |-> "", err |-> d.err]
     ELSE GetExtractor(d.platform) : d \in DetectPlatform(url)}

\* What ValidateURL can return.
ValidateURL(url) == {d.err = "nil" : d \in DetectPlatform(url)}

\* RegisterExtractor(platform, extractor, patterns); a nil extractor is
\* refused.
RegisterExtractor(platform, extractor, pats) ==
    /\ IF extractor = "nil"
       THEN UNCHANGED <<extractors, patterns>>
       ELSE /\ extractors' = extractors \cup {platform}
            /\ patterns' = [pattern \in DOMAIN patterns \cup pats |->
                               IF pattern \in pats THEN platform
                               ELSE patterns[pattern]]
    /\ answers' = [url |-> <<>>]
    /\ UNCHANGED <<rdVars, bmVars, mVars, tVars, sVars>>

Clear ==
    /\ extractors' = {}
    /\ patterns' = EmptyMap
    /\ answers' = [url |-> <<>>]
    /\ UNCHANGED <<rdVars, bmVars, mVars, tVars, sVars>>

\* A caller asks ValidateURL, DetectPlatform and GetExtractorForURL about a
\* URL, with no registration in between.
Ask(url) ==
    /\ \E valid \in ValidateURL(url), detected \in DetectPlatform(url) :
       \E found \in GetExtractorForURL(url) :
          answers' = [url |-> url, valid |-> valid, detected |-> detected,
                      found |-> found]
    /\ UNCHANGED <<extractors, patterns, rdVars, bmVars, mVars, tVars, sVars>>

InitRegistry ==
    /\ NewRegistry
    /\ ResumableIdle
    /\ NewBatchManager(1)
    /\ ManagerIdle
    /\ M3U8Idle

NextRegistry ==
    \/ \E platform \in Platforms, extractor \in {"nil", "extractor"} :
       \E pats \in SUBSET RegistryPatterns :
          RegisterExtractor(platform, extractor, pats)
    \/ Clear
    \/ \E url \in RegistryURLs : Ask(url)

SpecRegistry == InitRegistry /\ [][NextRegistry]_vars

\* C27: when ValidateURL said true for a URL, GetExtractorForURL returns an
\* extractor and no error for it, and the platform DetectPlatform returns
\* for a URL that matches a registered pattern is the platform a matching
\* pattern is registered for, whatever was registered or cleared before.
C27_ValidMeansExtractor ==
    answers.url # <<>> =>
        /\ answers.valid =>
              answers.found.err = "nil" /\ answers.found.extractor # "nil"
        /\ (\E pattern \in DOMAIN patterns :
                MatchString(pattern, answers.url))
              => \E pattern \in DOMAIN patterns :
                    /\ MatchString(pattern, answers.url)
                    /\ answers.detected.err = "nil"
                    /\ answers.detected.platform = patterns[pattern]

\* ---------------------------------------------------------------------
\* ResumableDownloader, the fetch of performDownload.
\* ---------------------------------------------------------------------

\* The response to the request of task t has the status its offset asks for.
accepted(t) ==
    serverStatus(tasks[t].Range)
        = (IF tasks[t].startByte > 0 THEN 206 ELSE 200)

\* C28: a fetch attempt starts at the size the temporary file has then (0
\* without a file) and sends a Range header exactly when that offset is
\* above 0; the task goes on to copy only from a response with status 206
\* for an offset above 0 and 200 for offset 0; and the temporary file grows
\* only by the write of a task that copies from such a response.
C28_FetchRule ==
    [][/\ \A t \in DOMAIN tasks :
            LET j == tasks[t].job
                size == IF j \in DOMAIN tempFiles THEN Len(tempFiles[j])
                        ELSE 0
            IN /\ (leaves(t, {"probe", "backoff"}) /\ tasks'[t].pc = "fetch")
                    => /\ tasks'[t].startByte = size
                       /\ tasks'[t].Range # NoRange <=> size > 0
                       /\ tasks'[t].Range # NoRange
                              => tasks'[t].Range = size
               /\ (leaves(t, {"fetch"}) /\ tasks'[t].pc = "copy")
                    => accepted(t)
       /\ \A j \in DOMAIN tempFiles \cap DOMAIN tempFiles' :
            Len(tempFiles'[j]) > Len(tempFiles[j])
                => \E t \in DOMAIN tasks :
                      /\ tasks[t].job = j
                      /\ tasks[t].pc = "copy"
                      /\ tasks'[t].pos = tasks[t].pos + 1
                      /\ accepted(t)]_vars

\* A task that resumed at an offset above 0 has appended a byte of the
\* range response to the temporary file.
C28_Witness ==
    \E t \in DOMAIN tasks :
        /\ tasks[t].pc = "copy"
        /\ tasks[t].startByte > 0
        /\ tasks[t].Range = tasks[t].startByte
        /\ tasks[t].pos > tasks[t].startByte
        /\ tasks[t].fd = "temp"

\* C29: a task whose range request was answered with the full content, and
\* rejected for it, does not send a range request again on its next attempt:
\* it asks for the whole resource, so that the job can complete from a
\* server without range support.
C29_MismatchIsNotRepeated ==
    [][\A t \in DOMAIN tasks :
        (/\ leaves(t, {"backoff"})
         /\ tasks'[t].pc = "fetch"
         /\ tasks[t].err = "unexpected status code"
         /\ ~rangeSupport)
        => tasks'[t].Range = NoRange]_vars

\* The step is a call of completeJob by task t in which verifyFile fails:
\* after performDownload returned nil, or for a file found at the final
\* path.
failsVerification(t) ==
    \/ /\ CopyEnds(t) \/ (CopyFails(t) /\ ctxErr(Job(t).ctx))
       /\ ~verifyFile(Job(t))
    \/ /\ ProbeOk(t)
       /\ LET sized == IF sizeKnown
                       THEN [Job(t) EXCEPT !.FileSize = ResourceSize]
                       ELSE Job(t)
          IN fileExistsAndValid(sized) /\ ~verifyFile(sized)

\* C30: the call of completeJob in which the verification fails leaves the
\* job failed and the task at its end, and a task at its end makes no
\* fetch attempt any more, whatever is left of its retries.
C30_VerificationFailureIsFatal ==
    [][\A t \in DOMAIN tasks :
        /\ failsVerification(t)
              => /\ activeJobs'[tasks[t].job].Status = "failed"
                 /\ tasks'[t].pc \in {"send_failed", "done"}
        /\ (tasks[t].pc \in {"send_failed", "done"} /\ restarts' = restarts)
              => tasks'[t].pc \in {"send_failed", "done"}]_vars

\* A job failed in the verification while its task had a retry left.
C30_Witness ==
    \E t \in DOMAIN tasks :
        /\ tasks[t].pc \in {"send_failed", "done"}
        /\ tasks[t].attempt < maxRetries
        /\ activeJobs[tasks[t].job].Status = "failed"
        /\ activeJobs[tasks[t].job].LastError = "file verification failed"

\* ---------------------------------------------------------------------
\* Manager, after Stop.
\* ---------------------------------------------------------------------

\* C31: once Stop has cancelled the context no processing task is started:
\* no worker begins a request that waits in the queue, and no call of
\* Download goes on to processDownload.
C31_NoNewWorkAfterStop ==
    [][mCtxDone => DOMAIN procs' \subseteq DOMAIN procs]_vars

\* ---------------------------------------------------------------------
\* DownloadM3U8, termination.
\* ---------------------------------------------------------------------

\* C32: DownloadM3U8 is never stuck once no segment fetch is in progress:
\* while it has not returned, some goroutine of the call can take a step
\* (a token of the gate, the send of a progress value, or the return of
\* wg.Wait), whatever maxWorkers is and whether or not the caller reads the
\* progress channel.
C32_NeverStuck ==
    (m3u8.pc = "wait" /\ fetching = {}) => ENABLED NextM3U8

\* ---------------------------------------------------------------------
\* ResumableDownloader, a destination that is already there.
\* ---------------------------------------------------------------------

\* The job of task t as getFileInfo leaves it.
probed(t) ==
    IF sizeKnown THEN [Job(t) EXCEPT !.FileSize = ResourceSize] ELSE Job(t)

\* C33: when getFileInfo has returned and a file of the expected size is at
\* the job's final path, the job ends completed, no fetch is issued, and the
\* file at the final path is left as it is.
C33_ExistingFileCompletes ==
    [][\A t \in DOMAIN tasks :
          (ProbeOk(t) /\ fileExistsAndValid(probed(t))) =>
              /\ activeJobs'[Job(t).ID].Status = "completed"
              /\ tasks'[t].pc # "fetch"
              /\ finalFiles' = finalFiles]_vars

\* ---------------------------------------------------------------------
\* Manager, one processing task for a request.
\* ---------------------------------------------------------------------

\* C34: no request is handed to processDownload both by the call of
\* Download that queued it and by a worker that took it from the queue.
C34_ProcessedOnce ==
    \A c \in DOMAIN calls :
        ~(<<c, "caller">> \in DOMAIN procs /\ <<c, "worker">> \in DOMAIN procs)

\* ---------------------------------------------------------------------
\* processDownload, the progress channel.
\* ---------------------------------------------------------------------

\* C35: the progress channel of a request is closed only when the transfer
\* task that sends on it has ended, and no transfer task sends on a closed
\* channel.
C35_ClosedAfterTransfer ==
    \A p \in DOMAIN progressChans :
        /\ progressChans[p] = "closed" =>
               transfers[p] \in {"failed", "completed"}
        /\ transfers[p] # "panicked"

\* ---------------------------------------------------------------------
\* ResumableDownloader with DeleteJob.  The callers make no further call
\* for a job once they have deleted it.
\* ---------------------------------------------------------------------

\* DeleteJob(jobID): the job's context is cancelled, its temporary file and
\* its metadata file are removed, and the job leaves the registry.  A
\* descriptor that a task has open on the temporary file refers to the
\* unlinked inode from then on.  For an unknown id it returns an error.
DeleteJob(jobID) ==
    /\ jobID \in DOMAIN activeJobs \ removed
    /\ LET job == activeJobs[jobID] IN
       ctxs' = IF job.ctx > 0 THEN [ctxs EXCEPT ![job.ctx] = TRUE] ELSE ctxs
    /\ tempFiles' = Remove(tempFiles, jobID)
    /\ metaFiles' = Remove(metaFiles, jobID)
    /\ tasks' = [i \in DOMAIN tasks |->
                    IF tasks[i].fd = "temp" /\ tasks[i].job = jobID
                    THEN [tasks[i] EXCEPT !.fd = "orphan"]
                    ELSE tasks[i]]
    /\ removed' = removed \cup {jobID}
    /\ UNCHANGED <<activeJobs, finalFiles, chanLen, ret, restarts, env>>

NextDelete ==
    \/ \E u \in URLs, p \in Paths :
            removed = {} /\ StartDownload(u, p, progressChanOf)
                /\ UNCHANGED <<removed, bmVars, mVars, tVars, sVars, gVars>>
    \/ \E j \in JobIds : removed = {} /\ PauseJob(j)
                /\ UNCHANGED <<removed, bmVars, mVars, tVars, sVars, gVars>>
    \/ \E j \in JobIds : DeleteJob(j)
                /\ UNCHANGED <<bmVars, mVars, tVars, sVars, gVars>>
    \/ \E t \in DOMAIN tasks : Begin(t)
                /\ UNCHANGED <<removed, bmVars, mVars, tVars, sVars, gVars>>
    \/ \E t \in DOMAIN tasks : ProbeFails(t)
                /\ UNCHANGED <<removed, bmVars, mVars, tVars, sVars, gVars>>
    \/ \E t \in DOMAIN tasks : ProbeOk(t)
                /\ UNCHANGED <<removed, bmVars, mVars, tVars, sVars, gVars>>
    \/ \E t \in DOMAIN tasks : FetchFails(t)
                /\ UNCHANGED <<removed, bmVars, mVars, tVars, sVars, gVars>>
    \/ \E t \in DOMAIN tasks : FetchResponds(t)
                /\ UNCHANGED <<removed, bmVars, mVars, tVars, sVars, gVars>>
    \/ \E t \in DOMAIN tasks : CopyFails(t)
                /\ UNCHANGED <<removed, bmVars, mVars, tVars, sVars, gVars>>
    \/ \E t \in DOMAIN tasks : Write(t)
                /\ UNCHANGED <<removed, bmVars, mVars, tVars, sVars, gVars>>
    \/ \E t \in DOMAIN tasks : CopyEnds(t)
                /\ UNCHANGED <<removed, bmVars, mVars, tVars, sVars, gVars>>
    \/ \E t \in DOMAIN tasks : Retry(t)
                /\ UNCHANGED <<removed, bmVars, mVars, tVars, sVars, gVars>>
    \/ \E t \in DOMAIN tasks : BackoffCancelled(t)
                /\ UNCHANGED <<removed, bmVars, mVars, tVars, sVars, gVars>>
    \/ \E t \in DOMAIN tasks : SendCompleted(t)
                /\ UNCHANGED <<removed, bmVars, mVars, tVars, sVars, gVars>>
    \/ \E t \in DOMAIN tasks : SendFailed(t)
                /\ UNCHANGED <<removed, bmVars, mVars, tVars, sVars, gVars>>

SpecDelete == Init /\ [][NextDelete]_vars

\* C36: once DeleteJob has returned and no transfer task of the job runs any
\* more, neither the job's temporary file nor its metadata file exists, so
\* that the next startup does not load the job.
C36_DeletedStaysDeleted ==
    \A j \in removed :
        liveTasks(j) = {} =>
            /\ j \notin DOMAIN tempFiles
            /\ j \notin DOMAIN metaFiles
            /\ j \notin DOMAIN loadExistingJobs

\* ---------------------------------------------------------------------
\* BatchManager, what CancelJob reaches.
\* ---------------------------------------------------------------------

\* C37: CancelJob(jobID) cancels the named batch job only: when it returns,
\* no item of another batch job stands before a cancellation check that
\* skips it.
C37_CancelsOnlyNamedJob ==
    [][\A jobID \in DOMAIN batchJobs :
          CancelJob(jobID) =>
              \A t \in DOMAIN itemTasks :
                  itemTasks[t].job # jobID =>
                      ~(itemTasks'[t].pc = "check" /\ bmCtxDone')]_vars

\* ---------------------------------------------------------------------
\* BatchManager, the end of a batch job.
\* ---------------------------------------------------------------------

\* C38: a batch job whose processing has ended (CompletedAt is set) has the
\* status completed, failed or partial; it is not left pending or running.
C38_FinishedHasFinalStatus ==
    \A b \in DOMAIN batchJobs :
        batchJobs[b].pc = "done" =>
            batchJobs[b].Status \in {"completed", "failed", "partial"}

\* ---------------------------------------------------------------------
\* internal/utils, the DownloadManager with CancelJob.  A job id is the
\* position of the job among the jobs created (generateJobID is the clock).
\* ---------------------------------------------------------------------
MaxDMJobs == 2

DMPaths == {<<"videos", 1>>, <<"videos", 2>>}

dmRest == <<storage, transfers, progressChans, rdVars, bmVars, mVars, sVars,
            gVars>>

\* DownloadManager.Download(url, filePath, progressChan): the job is
\* registered as pending and go dm.downloadFile(job, progressChan).
dmDownload(filePath) ==
    /\ Len(dmJobs) < MaxDMJobs
    /\ dmJobs' = Append(dmJobs,
          [FilePath |-> filePath, Status |-> "pending", CancelFunc |-> FALSE,
           ctxDone |-> FALSE, pc |-> "start"])
    /\ UNCHANGED <<outputFiles, dmRest>>

\* downloadFile: context.WithCancel, job.CancelFunc = cancel.
SetCancelFunc(j) ==
    /\ dmJobs[j].pc = "start"
    /\ dmJobs' = [dmJobs EXCEPT ![j] =
          [@ EXCEPT !.CancelFunc = TRUE, !.pc = "size"]]
    /\ UNCHANGED <<outputFiles, dmRest>>

\* downloadFile returns with job.Status = "failed"; the deferred cancel().
failedJob(job) ==
    [job EXCEPT !.Status = "failed", !.ctxDone = TRUE, !.pc = "done"]

\* downloadFile: GetFileSize (a request without the job's context), then
\* job.Status = "downloading", the temporary file and the GET request with
\* the job's context; any of them can fail.
GetFileSize(j) ==
    /\ dmJobs[j].pc = "size"
    /\ \E ok \in BOOLEAN :
          dmJobs' = [dmJobs EXCEPT ![j] =
              IF ok THEN [@ EXCEPT !.Status = "downloading", !.pc = "request"]
              ELSE failedJob(@)]
    /\ UNCHANGED <<outputFiles, dmRest>>

\* downloadFile: client.Do returns; it fails when the context is cancelled,
\* and a status other than 200 or 206 fails the job.
Do(j) ==
    /\ dmJobs[j].pc = "request"
    /\ \E ok \in BOOLEAN :
          dmJobs' = [dmJobs EXCEPT ![j] =
              IF ok /\ ~dmJobs[j].ctxDone
              THEN [@ EXCEPT !.pc = "copy"]
              ELSE failedJob(@)]
    /\ UNCHANGED <<outputFiles, dmRest>>

\* downloadFile: io.Copy returns; with an error when the context is
\* cancelled or the connection breaks.  The callers of the model pass a nil
\* progress channel.
Copy(j) ==
    /\ dmJobs[j].pc = "copy"
    /\ \E ok \in BOOLEAN :
          dmJobs' = [dmJobs EXCEPT ![j] =
              IF ok /\ ~dmJobs[j].ctxDone
              THEN [@ EXCEPT !.pc = "move"]
              ELSE failedJob(@)]
    /\ UNCHANGED <<outputFiles, dmRest>>

\* downloadFile: os.MkdirAll and os.Rename(tempFile, job.FilePath), then
\* job.Status = "completed"; the deferred cancel().
Move(j) ==
    /\ dmJobs[j].pc = "move"
    /\ \E ok \in BOOLEAN :
          IF ok
          THEN /\ outputFiles' = outputFiles \cup {dmJobs[j].FilePath}
               /\ dmJobs' = [dmJobs EXCEPT ![j] =
                     [@ EXCEPT !.Status = "completed", !.ctxDone = TRUE,
                               !.pc = "done"]]
          ELSE /\ dmJobs' = [dmJobs EXCEPT ![j] = failedJob(@)]
               /\ UNCHANGED outputFiles
    /\ UNCHANGED dmRest

\* DownloadManager.CancelJob(jobID) returns nil: job.CancelFunc() if it is
\* set, job.Status = "cancelled".  For an unknown id it returns an error.
dmCancelJob(jobID) ==
    /\ jobID \in DOMAIN dmJobs
    /\ dmJobs' = [dmJobs EXCEPT ![jobID] =
          [@ EXCEPT !.ctxDone = @ \/ dmJobs[jobID].CancelFunc,
                    !.Status = "cancelled"]]
    /\ UNCHANGED <<outputFiles, dmRest>>

InitCancel ==
    /\ ResumableIdle
    /\ NewBatchManager(1)
    /\ ManagerIdle
    /\ M3U8Idle
    /\ NewRegistry

NextCancel ==
    \/ \E filePath \in DMPaths : dmDownload(filePath)
    \/ \E jobID \in 1..MaxDMJobs : dmCancelJob(jobID)
    \/ \E j \in DOMAIN dmJobs : SetCancelFunc(j)
    \/ \E j \in DOMAIN dmJobs : GetFileSize(j)
    \/ \E j \in DOMAIN dmJobs : Do(j)
    \/ \E j \in DOMAIN dmJobs : Copy(j)
    \/ \E j \in DOMAIN dmJobs : Move(j)

SpecCancel == InitCancel /\ [][NextCancel]_vars

\* C39: a job that CancelJob has set to cancelled stays cancelled, and no
\* file appears at its final path afterwards, wherever its transfer task
\* stood when CancelJob was called.
C39_CancelledStaysCancelled ==
    [][\A j \in DOMAIN dmJobs :
          dmJobs[j].Status = "cancelled" =>
              /\ dmJobs'[j].Status = "cancelled"
              /\ (dmJobs[j].FilePath \in outputFiles'
                     => dmJobs[j].FilePath \in outputFiles)]_vars

\* ---------------------------------------------------------------------
\* ResumableDownloader, a temporary file that is already complete.
\* ---------------------------------------------------------------------

\* Task t is the only task since the process was started again, in the
\* first attempt of a start or resume, and the temporary file of its job
\* already held the whole resource when the attempt began.
complete(t) ==
    /\ \A u \in DOMAIN tasks \ {t} : tasks[u].pc = "killed"
    /\ tasks[t].attempt = 0
    /\ tasks[t].job \in DOMAIN tempFiles
    /\ tempFiles[tasks[t].job] = Resource(Job(t).URL)
    /\ tasks[t].startByte = ResourceSize

\* C40: when a job is started or resumed with a temporary file that already
\* holds all the bytes of the resource, the answer of the server does not
\* count as a failed attempt and the job does not become failed.
C40_CompleteTempFileCompletes ==
    [][\A t \in DOMAIN tasks :
          (FetchResponds(t) /\ complete(t)) =>
              /\ tasks'[t].pc # "backoff"
              /\ activeJobs'[tasks[t].job].Status # "failed"]_vars

====
